---- MODULE Spec2Model ----
(***************************************************************************)
(* Verification model of the distributed command-execution core of cvs:    *)
(*   - the Parallel Execution Engine (cvs.lib.parallel_ssh_lib.Pssh),      *)
(*   - the retry-with-cleanup decorator (cvs.lib.retry.RetryIfEnabled).    *)
(* Each component has its own specification (SpecPssh, SpecRetry); the     *)
(* variables of the other component stay at their initial value.           *)
(***************************************************************************)
EXTENDS Integers, Sequences, FiniteSets, TLC

(***************************************************************************)
(* Bounds                                                                  *)
(***************************************************************************)
MaxHosts == 3

MaxRetriesBound == 2

MaxErrs == 2

\* longest stream of output lines read by _safe_iterator
MaxLines == 5

(***************************************************************************)
(* Generic helpers                                                         *)
(***************************************************************************)
Range(s) == {s[i] : i \in 1..Len(s)}

NoDup(s) == \A i, j \in 1..Len(s) : i /= j => s[i] /= s[j]

\* list.remove(x): drops the first occurrence of x
RECURSIVE Remove(_, _)
Remove(s, x) ==
    IF s = <<>> THEN <<>>
    ELSE IF Head(s) = x THEN Tail(s)
    ELSE <<Head(s)>> \o Remove(Tail(s), x)

\* [x for x in s if x in keep], order preserved
RECURSIVE Filter(_, _)
Filter(s, keep) ==
    IF s = <<>> THEN <<>>
    ELSE IF Head(s) \in keep THEN <<Head(s)>> \o Filter(Tail(s), keep)
    ELSE Filter(Tail(s), keep)

Contains(s, tok) == \E i \in 1..Len(s) : s[i] = tok

(***************************************************************************)
(* Parallel Execution Engine: data                                         *)
(***************************************************************************)
HostNames == <<"host1", "host2", "host3", "host4", "host5">>

\* the host lists an engine is built over: non-empty, duplicate-free
HostLists ==
    UNION {{s \in [1..n -> {HostNames[i] : i \in 1..MaxHosts}] : NoDup(s)} :
           n \in 1..MaxHosts}

\* exception classes of the transport (pssh.exceptions)
ExcClasses == {"ConnectionError", "Timeout"}

\* str(exception) for each class, as the unit tests build them
ExcText(cls) == IF cls = "ConnectionError" THEN "Connection failed" ELSE "Command timed out"

\* per-host outcome of one fan-out: "ok" or the class of the exception
Outcomes == {"ok"} \cup ExcClasses

\* A result string is modelled as the sequence of its pieces: texts that hold
\* no line break, and NL for each "\n".
NL == "\n"

HostUnreachableLine == "ABORT: Host Unreachable Error"

TimeoutLine(h) == <<"ABORT: Timeout Error in Host: ", h>>

\* the output a host prints for a command: one line naming host and command
StdoutOf(h, cmd) == <<"out", h, cmd, NL>>

\* the single command of exec, and the i-th command of a cmd_list
ExecCmd == "cmd"

CmdListCmd(i) == <<"cmd1", "cmd2", "cmd3", "cmd4", "cmd5">>[i]

VARIABLES
    host_list,          \* the list given at construction (H)
    reachable_hosts,    \* Pssh.reachable_hosts
    unreachable_hosts,  \* Pssh.unreachable_hosts
    stop_on_errors,     \* Pssh.stop_on_errors
    client,             \* hosts the current ParallelSSHClient is built over
    client_builds,      \* number of ParallelSSHClient constructions (init counts)
    call,               \* observation of the last exec / exec_cmd_list call
    error_list,         \* globals.error_list, the shared failure signal
    retry_config,       \* kwargs.get('retry_config') of the wrapped call
    rpc,                \* position of the wrapper within the invocation
    attempt,            \* loop variable of _execute_with_retry (0-based)
    total_attempts,     \* max_retries + 1
    func_calls,         \* number of invocations of the wrapped operation
    cleanup_calls,      \* number of invocations of _cleanup_after_failure
    last_result,        \* value returned by the latest invocation of func
    ending,             \* how the wrapper ended: value returned / exception
    pre_error_list,     \* error_list when the wrapper was entered
    trace,              \* events of the invocation, in order
    o_type,             \* orchestrator_type: "baremetal" or "container"
    o_hosts,            \* BaremetalOrchestrator.hosts (head node first)
    o_stop,             \* Orchestrator.stop_on_errors
    o_cfg,              \* ContainerOrchestrator.container_config
    container_id,       \* ContainerOrchestrator.container_id ("None" or a name)
    cont,               \* per host: a container of that name exists and runs
    all_reach,          \* reachable hosts of the engine self.all
    head_reach,         \* reachable hosts of the engine self.head
    opc,                \* position inside a running setup_containers call
    op,                 \* observation of the current / last orchestrator call
    oc_in,              \* kwargs given to OrchestratorConfig construction
    oc_out,             \* the outcome of that construction
    fac_in,             \* arguments of the last create_orchestrator call
    presented,          \* what the engine read from the hosts and what it returned
    cmd_list,           \* per position, the host the caller meant the command for
    si,                 \* one run of _safe_iterator over a stream of lines
    hook,               \* one run of RcclRetryIfEnabled._cleanup_after_failure
    calls               \* two retry-wrapped calls that overlap in time

psshVars == <<host_list, reachable_hosts, unreachable_hosts, stop_on_errors,
              client, client_builds, call>>

retryVars == <<error_list, retry_config, rpc, attempt, total_attempts, func_calls,
               cleanup_calls, last_result, ending, pre_error_list, trace>>

orchVars == <<o_type, o_hosts, o_stop, o_cfg, container_id, cont, all_reach,
              head_reach, opc, op>>

cfgVars == <<oc_in, oc_out, fac_in>>

libVars == <<presented, cmd_list, si, hook, calls>>

vars == <<host_list, reachable_hosts, unreachable_hosts, stop_on_errors,
          client, client_builds, call,
          error_list, retry_config, rpc, attempt, total_attempts, func_calls,
          cleanup_calls, last_result, ending, pre_error_list, trace,
          o_type, o_hosts, o_stop, o_cfg, container_id, cont, all_reach,
          head_reach, opc, op, oc_in, oc_out, fac_in, presented, cmd_list, si,
          hook, calls>>

NoExc == [class |-> "none", text |-> "", host |-> ""]

NoCall ==
    [kind |-> "none", raised |-> NoExc, rejected |-> FALSE, returned |-> FALSE,
     result |-> <<>>,
     issued |-> <<>>, probed |-> {}, probe_ran |-> FALSE, prune_ran |-> FALSE,
     outcome |-> <<>>, probe_down |-> {},
     pre_reachable |-> <<>>, pre_unreachable |-> <<>>, pre_client |-> <<>>,
     pre_builds |-> 0]

(***************************************************************************)
(* Parallel Execution Engine: operations                                   *)
(***************************************************************************)
\* Pssh.__init__: every host starts reachable, one transport over all of them
PsshInit ==
    \* the engine treats every host alike, so one list of each length stands
    \* for all the lists of that length
    /\ host_list \in {SubSeq(HostNames, 1, n) : n \in 1..MaxHosts}
    /\ reachable_hosts = host_list
    /\ unreachable_hosts = <<>>
    /\ stop_on_errors \in BOOLEAN
    /\ client = host_list
    /\ client_builds = 1
    /\ call = NoCall

\* hosts of the fan-out that carry an exception
FailedHosts(hosts, outcome) == Filter(hosts, {h \in Range(hosts) : outcome[h] /= "ok"})

\* check_connectivity(hosts): the probe contacts the given hosts only and
\* returns those that did not answer, in the order given
check_connectivity(hosts, down) == Filter(hosts, down)

\* variant: the timeout line is folded into the text of every timed-out host
HostOutput_TimeoutLine(h, cmd, cls) ==
    IF cls = "ok" THEN StdoutOf(h, cmd)
    ELSE IF cls = "Timeout" THEN <<ExcText(cls), NL>> \o TimeoutLine(h)
    ELSE <<ExcText(cls)>>

\* _process_output, per host: the stdout lines of a host that ran the
\* command, the raw exception text of a host that carries an exception
HostOutput(h, cmd, cls) ==
    IF cls = "ok" THEN StdoutOf(h, cmd) ELSE <<ExcText(cls)>>

\* variant: one sentinel for both exception classes
Sentinel_Plain(h, cls) == <<NL, NL, HostUnreachableLine>>

\* sentinel appended after the exception text of a pruned host; a timeout-class
\* host gets the extra "Timeout Error in Host" line first
Sentinel(h, cls) ==
    IF cls = "Timeout"
    THEN <<NL>> \o TimeoutLine(h) \o <<NL, NL, HostUnreachableLine>>
    ELSE <<NL, NL, HostUnreachableLine>>

\* prune_unreachable_hosts: every host the probe reported leaves reachable ...
RECURSIVE PruneReachable(_, _)
PruneReachable(reach, gone) ==
    IF gone = <<>> THEN reach
    ELSE PruneReachable(Remove(reach, Head(gone)), Tail(gone))

\* variant: the pruned hosts are not recorded as unreachable
PruneUnreachable_Forget(unreach, gone) == unreach

\* ... and joins unreachable
PruneUnreachable(unreach, gone) == unreach \o gone

\* the transport is rebuilt iff the unreachable list grew in this call
RebuildNeeded(unreachBefore, unreachAfter) == Len(unreachAfter) > Len(unreachBefore)

\* variant: one rebuild per pruned host
BuildsAfter_PerHost(builds, unreachBefore, unreachAfter) ==
    builds + (Len(unreachAfter) - Len(unreachBefore))

\* ... and then once, after all hosts of the call are pruned
BuildsAfter(builds, unreachBefore, unreachAfter) ==
    IF RebuildNeeded(unreachBefore, unreachAfter) THEN builds + 1 ELSE builds

\* variant: the transport is never rebuilt
ClientAfter_Stale(cl, reach, unreachBefore, unreachAfter) == cl

\* the hosts the rebuilt transport is built over
ClientAfter(cl, reach, unreachBefore, unreachAfter) ==
    IF RebuildNeeded(unreachBefore, unreachAfter) THEN reach ELSE cl

\* variant: only the hosts contacted by this call have an entry
InformUnreachability_ContactedOnly(cmd_output, unreach, outcome) ==
    [h \in DOMAIN cmd_output |->
        IF h \in Range(unreach)
        THEN cmd_output[h] \o <<NL, NL, HostUnreachableLine>>
        ELSE cmd_output[h]]

\* inform_unreachability: every host of the unreachable list has an entry in
\* the result map. A host pruned in this call carries its exception text and
\* the sentinel of its class; a host pruned by an earlier call was not
\* contacted, has no text, and carries the plain sentinel.
InformUnreachability(cmd_output, unreach, outcome) ==
    [h \in DOMAIN cmd_output \cup Range(unreach) |->
        IF h \in Range(unreach)
        THEN IF h \in DOMAIN cmd_output
             THEN cmd_output[h] \o Sentinel(h, outcome[h])
             ELSE Sentinel(h, "ConnectionError")
        ELSE cmd_output[h]]

\* the command each host of the transport is sent: the same for exec,
\* cmd_list[i] for the i-th host for exec_cmd_list
Issued(kind, hosts) ==
    [h \in Range(hosts) |->
        IF kind = "exec" THEN ExecCmd
        ELSE CmdListCmd(CHOOSE i \in 1..Len(hosts) : hosts[i] = h)]

\* _process_output over the whole fan-out
ProcessOutput(kind, hosts, outcome) ==
    [h \in Range(hosts) |-> HostOutput(h, Issued(kind, hosts)[h], outcome[h])]

\* stop_on_errors = True: run_command raises the exception of a failed host;
\* nothing else of the call runs
RaiseCall(kind, outcome, h) ==
    /\ call' = [NoCall EXCEPT
                  !.kind = kind,
                  !.raised = [class |-> outcome[h], text |-> ExcText(outcome[h]), host |-> h],
                  !.issued = Issued(kind, client),
                  !.outcome = outcome,
                  !.pre_reachable = reachable_hosts,
                  !.pre_unreachable = unreachable_hosts,
                  !.pre_client = client,
                  !.pre_builds = client_builds]
    /\ UNCHANGED <<host_list, reachable_hosts, unreachable_hosts, stop_on_errors,
                   client, client_builds>>

\* stop_on_errors = True and no host failed: the outputs are returned
ReturnStrict(kind, outcome) ==
    /\ call' = [NoCall EXCEPT
                  !.kind = kind,
                  !.returned = TRUE,
                  !.result = ProcessOutput(kind, client, outcome),
                  !.issued = Issued(kind, client),
                  !.outcome = outcome,
                  !.pre_reachable = reachable_hosts,
                  !.pre_unreachable = unreachable_hosts,
                  !.pre_client = client,
                  !.pre_builds = client_builds]
    /\ UNCHANGED <<host_list, reachable_hosts, unreachable_hosts, stop_on_errors,
                   client, client_builds>>

\* stop_on_errors = False: outputs are collected per host, the failed hosts
\* are probed, the confirmed ones pruned, the transport rebuilt if needed
ReturnLenient(kind, outcome, down) ==
    LET failed  == FailedHosts(client, outcome)
        gone    == check_connectivity(failed, down)
        reach2  == PruneReachable(reachable_hosts, gone)
        unreac2 == PruneUnreachable(unreachable_hosts, gone)
        out     == ProcessOutput(kind, client, outcome)
    IN  /\ reachable_hosts' = reach2
        /\ unreachable_hosts' = unreac2
        /\ client' = ClientAfter(client, reach2, unreachable_hosts, unreac2)
        /\ client_builds' = BuildsAfter(client_builds, unreachable_hosts, unreac2)
        /\ call' = [NoCall EXCEPT
                      !.kind = kind,
                      !.returned = TRUE,
                      !.result = InformUnreachability(out, unreac2, outcome),
                      !.issued = Issued(kind, client),
                      !.probed = Range(failed),
                      !.probe_ran = TRUE,
                      !.prune_ran = TRUE,
                      !.outcome = outcome,
                      !.probe_down = Range(gone),
                      !.pre_reachable = reachable_hosts,
                      !.pre_unreachable = unreachable_hosts,
                      !.pre_client = client,
                      !.pre_builds = client_builds]
        /\ UNCHANGED <<host_list, stop_on_errors>>

\* variant: the stop_on_errors policy is ignored
Call_AlwaysLenient(kind) ==
    \E outcome \in [Range(client) -> Outcomes] :
        \E down \in SUBSET Range(FailedHosts(client, outcome)) :
            ReturnLenient(kind, outcome, down)

\* one call of the engine: the fan-out over the current transport, with any
\* mix of per-host outcomes and probe answers
Call(kind) ==
    \E outcome \in [Range(client) -> Outcomes] :
        IF stop_on_errors
        THEN IF \E h \in Range(client) : outcome[h] /= "ok"
             THEN \E h \in Range(client) : outcome[h] /= "ok" /\ RaiseCall(kind, outcome, h)
             ELSE ReturnStrict(kind, outcome)
        ELSE \E down \in SUBSET Range(FailedHosts(client, outcome)) :
                ReturnLenient(kind, outcome, down)

\* Pssh.exec(cmd)
exec ==
    /\ Call("exec")
    /\ UNCHANGED <<retryVars, orchVars, cfgVars, libVars>>

\* the lists a caller builds: one command per host of reachable_hosts or of
\* the host list it constructed the engine with, one command short, or one
\* command too many (meant for no host)
CmdListPairings ==
    {reachable_hosts, host_list, Append(reachable_hosts, "")}
    \cup (IF reachable_hosts = <<>> THEN {}
          ELSE {SubSeq(reachable_hosts, 1, Len(reachable_hosts) - 1)})

\* variant: a list at least as long as the transport is accepted
Accepts_AtLeast(len, cl) == len >= Len(cl)

\* "lengths must match"
Accepts(len, cl) == len = Len(cl)

\* a cmd_list of the wrong length: the call is refused, nothing is sent
RejectCall(kind) ==
    /\ call' = [NoCall EXCEPT
                  !.kind = kind,
                  !.rejected = TRUE,
                  !.pre_reachable = reachable_hosts,
                  !.pre_unreachable = unreachable_hosts,
                  !.pre_client = client,
                  !.pre_builds = client_builds]
    /\ UNCHANGED <<host_list, reachable_hosts, unreachable_hosts, stop_on_errors,
                   client, client_builds>>

\* Pssh.exec_cmd_list(cmd_list): the i-th command goes to the i-th host of the
\* transport
exec_cmd_list ==
    /\ \E paired \in CmdListPairings :
          /\ cmd_list' = paired
          /\ IF Accepts(Len(paired), client)
             THEN Call("exec_cmd_list")
             ELSE RejectCall("exec_cmd_list")
    /\ UNCHANGED <<retryVars, orchVars, cfgVars, presented, si, hook, calls>>

(***************************************************************************)
(* Parallel Execution Engine: the two presentations of a result            *)
(***************************************************************************)
\* what the transport holds for one host after the command: the lines read,
\* and either an exit status (<<n>>) or an exception and no status (<<>>)
HostRuns ==
    [exception : {"none"}, exit_status : {<<0>>, <<1>>},
     stdout : {<<>>, <<"o1", "o2">>}, stderr : {<<>>, <<"e1">>}]
    \cup
    [exception : ExcClasses, exit_status : {<<>>}, stdout : {<<>>, <<"o1", "o2">>},
     stderr : {<<>>}]

\* every line followed by a newline
RECURSIVE Joined(_)
Joined(lines) ==
    IF lines = <<>> THEN <<>> ELSE <<Head(lines), NL>> \o Joined(Tail(lines))

\* variant: the status slot is reported as it is, an empty slot as 0
ExitCodeOf_Status(run) ==
    IF run.exit_status = <<>> THEN 0 ELSE run.exit_status[1]

\* exit_code of the detailed record: -1 stands for "exception, no real exit code"
ExitCodeOf(run) ==
    IF run.exception /= "none" THEN 0 - 1 ELSE run.exit_status[1]

\* the string built for one host: stdout, then stderr, then the exception
\* text, then the annotation of a pruned host
Annotated(h, run, pruned) ==
    Joined(run.stdout) \o Joined(run.stderr)
    \o (IF run.exception = "none" THEN <<>> ELSE <<ExcText(run.exception)>>)
    \o (IF h \in pruned THEN Sentinel(h, run.exception) ELSE <<>>)

\* the result of one lenient call in either presentation
Presentation(hosts, runs, pruned, detailed) ==
    [h \in Range(hosts) |->
        IF detailed
        THEN [output |-> Annotated(h, runs[h], pruned), exit_code |-> ExitCodeOf(runs[h])]
        ELSE Annotated(h, runs[h], pruned)]

NoPresented == [hosts |-> <<>>, runs |-> <<>>, pruned |-> {}, detailed |-> FALSE,
                returned |-> FALSE, result |-> <<>>]

\* Pssh.exec(cmd, detailed=...) with stop_on_errors = False, as to what it
\* returns for what the hosts did
exec_presented ==
    /\ ~presented.returned
    /\ presented.hosts /= <<>>
    /\ presented' = [presented EXCEPT
                        !.returned = TRUE,
                        !.result = Presentation(presented.hosts, presented.runs,
                                                presented.pruned, presented.detailed)]
    /\ UNCHANGED <<psshVars, retryVars, orchVars, cfgVars, cmd_list, si, hook,
                   calls>>

(***************************************************************************)
(* Parallel Execution Engine: reading a host's output line by line         *)
(***************************************************************************)
NoStream == [stream |-> <<>>, pos |-> 0, delivered |-> <<>>, warnings |-> 0,
             done |-> TRUE]

\* variant: a line that fails to decode ends the read
SkipLine_Abort(it) ==
    [it EXCEPT !.pos = @ + 1, !.warnings = @ + 1, !.done = TRUE]

\* except UnicodeDecodeError: one warning is printed, the line is dropped and
\* the loop continues
SkipLine(it) ==
    [it EXCEPT !.pos = @ + 1, !.warnings = @ + 1]

\* one round of the loop of _safe_iterator: next(iterator) yields a line,
\* raises UnicodeDecodeError, or raises StopIteration
safe_iterator ==
    /\ ~si.done
    /\ IF si.pos = Len(si.stream)
       THEN si' = [si EXCEPT !.done = TRUE]
       ELSE LET line == si.stream[si.pos + 1] IN
            IF line.ok
            THEN si' = [si EXCEPT !.pos = @ + 1, !.delivered = Append(@, line.no)]
            ELSE si' = SkipLine(si)
    /\ UNCHANGED <<psshVars, retryVars, orchVars, cfgVars, presented, cmd_list,
                   hook, calls>>

(***************************************************************************)
(* Retry-with-Cleanup: the cleanup hook of the collective benchmarks       *)
(***************************************************************************)
\* self.rccl_test_binaries
rccl_test_binaries ==
    <<"all_reduce_perf", "all_gather_perf", "reduce_scatter_perf",
      "broadcast_perf", "reduce_perf", "alltoall_perf", "alltoallv_perf",
      "gather_perf", "scatter_perf", "sendrecv_perf", "hypercube_perf">>

\* the two patterns of MPI processes that are killed after the binaries
MpiPatterns == <<"mpirun.*rccl", "orted">>

\* the files removed at the end
TempFiles == <<"/tmp/rccl_*.json", "/tmp/rccl_hosts_file.txt", "/tmp/ompi.*">>

\* user_flag = f"-u {user_name}" if user_name else ""
user_flag(user_name) == IF user_name /= "" THEN <<"-u", user_name>> ELSE <<>>

\* pkill -9 {user_flag} -f '{rccl_tests_dir}/{binary}' 2>/dev/null || true
KillBinaryCmd(binary, dir, user_name) ==
    [op |-> "pkill -9", flag |-> user_flag(user_name), dir |-> dir,
     target |-> binary]

\* cleanup_commands as filled before the kill loop: one command per binary,
\* extended by pkill -9 {user_flag} -f '<pattern>' for the two MPI patterns
KillCommands(dir, user_name) ==
    [i \in 1..Len(rccl_test_binaries) |->
        KillBinaryCmd(rccl_test_binaries[i], dir, user_name)]
    \o [i \in 1..Len(MpiPatterns) |->
        [op |-> "pkill -9", flag |-> user_flag(user_name), dir |-> "",
         target |-> MpiPatterns[i]]]

\* variant: one of the three is enough
HookActs_Any(kwargs) ==
    kwargs.phdl \/ kwargs.rccl_tests_dir /= "" \/ kwargs.user_name /= ""

\* all([phdl, rccl_tests_dir, user_name])
HookActs(kwargs) ==
    kwargs.phdl /\ kwargs.rccl_tests_dir /= "" /\ kwargs.user_name /= ""

NoHook == [passed |-> [phdl |-> "missing", rccl_tests_dir |-> "missing",
                       user_name |-> "missing"],
           kwargs |-> [phdl |-> FALSE, rccl_tests_dir |-> "", user_name |-> ""],
           hosts |-> <<>>, pc |-> "done", cleanup_commands |-> <<>>,
           idx |-> 0, issued |-> <<>>, found_processes |-> {},
           warnings |-> [check |-> 0, kill |-> 0, file |-> 0], raised |-> FALSE]

\* phdl.exec(cmd, stop_on_errors=False) is called: the command goes to every
\* host of the handle
Issue(h, cmd) == [h EXCEPT !.issued = Append(@, [cmd |-> cmd, hosts |-> h.hosts])]

\* variant: an exception of phdl.exec leaves the hook
OnException_Propagate(h, loop, next) ==
    [h EXCEPT !.raised = TRUE, !.pc = "done"]

\* except Exception as e: log.warning(...): the exception of phdl.exec is
\* logged and the hook goes on with what follows the try statement
OnException(h, loop, next) ==
    [next EXCEPT !.warnings[loop] = @ + 1]

\* RcclRetryIfEnabled._cleanup_after_failure
rccl_cleanup_after_failure ==
    /\ rpc = "cleanup"
    /\ hook.pc = "called"
    /\ IF HookActs(hook.kwargs)
       THEN hook' = [hook EXCEPT !.pc = "check_rccl"]
       ELSE hook' = [hook EXCEPT !.pc = "done"]
    /\ UNCHANGED <<psshVars, retryVars, orchVars, cfgVars, presented, cmd_list, si,
                   calls>>

\* the two checks for existing processes: each host whose output is neither
\* empty nor "0" is added to found_processes
check_processes ==
    /\ hook.pc \in {"check_rccl", "check_mpi"}
    /\ LET what == IF hook.pc = "check_rccl" THEN "rccl" ELSE "mpi"
           \* ps aux {user_flag} | grep -E <pattern> | grep -v grep | wc -l
           h1 == Issue(hook, [op |-> "ps aux | wc -l",
                              flag |-> user_flag(hook.kwargs.user_name),
                              dir |-> "", target |-> what])
           after == IF hook.pc = "check_rccl"
                    THEN [h1 EXCEPT !.pc = "check_mpi"]
                    ELSE [h1 EXCEPT !.pc = "kill", !.idx = 1,
                              !.cleanup_commands =
                                  KillCommands(hook.kwargs.rccl_tests_dir,
                                               hook.kwargs.user_name)]
       IN \/ \E counted \in SUBSET Range(hook.hosts) :
                hook' = [after EXCEPT !.found_processes =
                                          @ \cup {<<what, n>> : n \in counted}]
          \/ hook' = OnException(h1, "check", after)
    /\ UNCHANGED <<psshVars, retryVars, orchVars, cfgVars, presented, cmd_list, si,
                   calls>>

\* for cmd in cleanup_commands: one round of the kill loop; after the last
\* round cleanup_commands is extended by rm -f <file> 2>/dev/null || true for
\* each of the three files
kill_processes ==
    /\ hook.pc = "kill"
    /\ LET h1 == Issue(hook, hook.cleanup_commands[hook.idx])
           after == IF hook.idx < Len(hook.cleanup_commands)
                    THEN [h1 EXCEPT !.idx = @ + 1]
                    ELSE [h1 EXCEPT !.pc = "file", !.idx = 1,
                              !.cleanup_commands =
                                  @ \o [i \in 1..Len(TempFiles) |->
                                           [op |-> "rm -f", flag |-> <<>>,
                                            dir |-> "", target |-> TempFiles[i]]]]
       IN \/ hook' = after
          \/ hook' = OnException(h1, "kill", after)
    /\ UNCHANGED <<psshVars, retryVars, orchVars, cfgVars, presented, cmd_list, si,
                   calls>>

\* for cmd in cleanup_commands[-3:]: one round of the file cleanup loop
cleanup_files ==
    /\ hook.pc = "file"
    /\ LET todo == SubSeq(hook.cleanup_commands, Len(hook.cleanup_commands) - 2,
                          Len(hook.cleanup_commands))
           h1 == Issue(hook, todo[hook.idx])
           after == IF hook.idx < Len(todo)
                    THEN [h1 EXCEPT !.idx = @ + 1]
                    ELSE [h1 EXCEPT !.pc = "done"]
       IN \/ hook' = after
          \/ hook' = OnException(h1, "file", after)
    /\ UNCHANGED <<psshVars, retryVars, orchVars, cfgVars, presented, cmd_list, si,
                   calls>>

\* the engine of a specification that presents nothing
LibIdle ==
    /\ presented = NoPresented
    /\ cmd_list = <<>>
    /\ si = NoStream
    /\ hook = NoHook
    /\ calls = <<>>

(***************************************************************************)
(* Retry-with-Cleanup: data                                                *)
(***************************************************************************)
\* retry_config as the wrapper sees it: None (present = FALSE), or a dict
\* in which each key may be missing. enabled is the value stored under
\* 'cvs_retry_on_failure' ("absent" when the key is missing).
NoConfig ==
    [present |-> FALSE, enabled |-> "absent", has_max |-> FALSE, max_retries |-> 0,
     has_delay |-> FALSE, delay |-> 0]

RetryConfigs ==
    {NoConfig} \cup
    {c \in [present : {TRUE}, enabled : {"absent", "false", "true"},
            has_max : BOOLEAN, max_retries : (0 - 1)..MaxRetriesBound,
            has_delay : BOOLEAN, delay : {0, 1}] :
        /\ (~c.has_max => c.max_retries = 0)
        /\ (~c.has_delay => c.delay = 0)}

DefaultMaxRetries == 1

DefaultRetryDelay == 0

\* variant: the enabled flag is not consulted
RetryEnabled_IgnoreFlag(c) == c.present

\* retry_config and retry_config.get('cvs_retry_on_failure', False)
RetryEnabled(c) == c.present /\ c.enabled = "true"

\* retry_config.get('cvs_max_retries', 1)
GetMaxRetries(c) == IF c.has_max THEN c.max_retries ELSE DefaultMaxRetries

\* retry_config.get('cvs_retry_delay_seconds', 0)
GetRetryDelay(c) == IF c.has_delay THEN c.delay ELSE DefaultRetryDelay

\* records the wrapped operation appends to the failure signal
ErrRecord(k, j) == <<"err", k, j>>

\* j records appended by invocation number k
RECURSIVE NewErrors(_, _)
NewErrors(k, j) == IF j = 0 THEN <<>> ELSE NewErrors(k, j - 1) \o <<ErrRecord(k, j)>>

\* the value returned by invocation number k of the wrapped operation
ResultOf(k) == <<"result", k>>

NoEnding == [kind |-> "none", value |-> <<>>, attempts |-> 0, errors |-> <<>>]

RetryIdle ==
    /\ retry_config = NoConfig
    /\ rpc = "idle"
    /\ attempt = 0
    /\ total_attempts = 0
    /\ func_calls = 0
    /\ cleanup_calls = 0
    /\ last_result = <<>>
    /\ ending = NoEnding
    /\ pre_error_list = <<>>
    /\ trace = <<>>

(***************************************************************************)
(* Retry-with-Cleanup: operations                                          *)
(***************************************************************************)
\* wrapper(*args, **kwargs): choose the retry path or the run-once path.
\* On the retry path range(total_attempts) is empty when total_attempts <= 0:
\* the loop body never runs and the function falls off its end (returns None).
wrapper ==
    /\ rpc = "idle"
    /\ \E c \in RetryConfigs :
        /\ retry_config' = c
        /\ pre_error_list' = error_list
        /\ IF RetryEnabled(c)
           THEN /\ total_attempts' = GetMaxRetries(c) + 1
                /\ IF GetMaxRetries(c) + 1 > 0
                   THEN /\ rpc' = "reset"
                        /\ ending' = ending
                   ELSE /\ rpc' = "done"
                        /\ ending' = [NoEnding EXCEPT !.kind = "returned_none"]
           ELSE /\ total_attempts' = 0
                /\ rpc' = "once"
                /\ ending' = ending
    /\ attempt' = 0
    /\ UNCHANGED <<error_list, func_calls, cleanup_calls, last_result, trace>>
    /\ UNCHANGED <<psshVars, orchVars, cfgVars, libVars>>

\* variant: the failure signal is reset before the only invocation as well
run_once_Reset ==
    /\ rpc = "once"
    /\ \E j \in 0..MaxErrs, raises \in BOOLEAN :
        /\ func_calls' = func_calls + 1
        /\ error_list' = NewErrors(func_calls + 1, j)
        /\ trace' = Append(trace, "invoke")
        /\ IF raises
           THEN /\ ending' = [NoEnding EXCEPT !.kind = "func_raised"]
                /\ last_result' = last_result
           ELSE /\ ending' = [NoEnding EXCEPT !.kind = "returned", !.value = ResultOf(func_calls + 1)]
                /\ last_result' = ResultOf(func_calls + 1)
    /\ rpc' = "done"
    /\ UNCHANGED <<retry_config, attempt, total_attempts, cleanup_calls, pre_error_list>>
    /\ UNCHANGED <<psshVars, orchVars, cfgVars, libVars>>

\* retry disabled: return func(*args, **kwargs). The operation may append j
\* records to the failure signal, and returns or raises.
run_once ==
    /\ rpc = "once"
    /\ \E j \in 0..MaxErrs, raises \in BOOLEAN :
        /\ func_calls' = func_calls + 1
        /\ error_list' = error_list \o NewErrors(func_calls + 1, j)
        /\ trace' = Append(trace, "invoke")
        /\ IF raises
           THEN /\ ending' = [NoEnding EXCEPT !.kind = "func_raised"]
                /\ last_result' = last_result
           ELSE /\ ending' = [NoEnding EXCEPT !.kind = "returned", !.value = ResultOf(func_calls + 1)]
                /\ last_result' = ResultOf(func_calls + 1)
    /\ rpc' = "done"
    /\ UNCHANGED <<retry_config, attempt, total_attempts, cleanup_calls, pre_error_list>>
    /\ UNCHANGED <<psshVars, orchVars, cfgVars, libVars>>

\* variant: the wait is taken before the first attempt as well
Waits_EveryAttempt(att, delay) == delay > 0

\* "if attempt > 0: if retry_delay > 0:"
Waits(att, delay) == att > 0 /\ delay > 0

\* variant: the failure signal is reset before the first attempt only
reset_error_list_FirstOnly ==
    /\ rpc = "reset"
    /\ error_list' = IF attempt = 0 THEN <<>> ELSE error_list
    /\ trace' = Append(trace, "reset")
    /\ rpc' = IF Waits(attempt, GetRetryDelay(retry_config)) THEN "sleep" ELSE "invoke"
    /\ UNCHANGED <<retry_config, attempt, total_attempts, func_calls, cleanup_calls,
                   last_result, ending, pre_error_list>>
    /\ UNCHANGED <<psshVars, orchVars, cfgVars, libVars>>

\* globals.error_list = [] at the start of each attempt; then the wait before
\* a retry is taken only when attempt > 0 and retry_delay > 0
reset_error_list ==
    /\ rpc = "reset"
    /\ error_list' = <<>>
    /\ trace' = Append(trace, "reset")
    /\ rpc' = IF Waits(attempt, GetRetryDelay(retry_config)) THEN "sleep" ELSE "invoke"
    /\ UNCHANGED <<retry_config, attempt, total_attempts, func_calls, cleanup_calls,
                   last_result, ending, pre_error_list>>
    /\ UNCHANGED <<psshVars, orchVars, cfgVars, libVars>>

\* time.sleep(retry_delay)
sleep ==
    /\ rpc = "sleep"
    /\ trace' = Append(trace, "sleep")
    /\ rpc' = "invoke"
    /\ UNCHANGED <<error_list, retry_config, attempt, total_attempts, func_calls,
                   cleanup_calls, last_result, ending, pre_error_list>>
    /\ UNCHANGED <<psshVars, orchVars, cfgVars, libVars>>

\* variant: an exception of func is handled like a failed attempt
invoke_RetryOnException ==
    /\ rpc = "invoke"
    /\ \E j \in 0..MaxErrs, raises \in BOOLEAN :
        /\ func_calls' = func_calls + 1
        /\ error_list' = error_list \o NewErrors(func_calls + 1, j)
        /\ trace' = Append(trace, "invoke")
        /\ IF raises
           THEN /\ ending' = [NoEnding EXCEPT !.kind = "func_raised"]
                /\ last_result' = last_result
                /\ rpc' = "cleanup"
           ELSE /\ ending' = ending
                /\ last_result' = ResultOf(func_calls + 1)
                /\ rpc' = "inspect"
    /\ UNCHANGED <<retry_config, attempt, total_attempts, cleanup_calls, pre_error_list>>
    /\ UNCHANGED <<psshVars, orchVars, cfgVars, libVars>>

\* result = func(*args, **kwargs): an exception of func leaves the wrapper
invoke ==
    /\ rpc = "invoke"
    /\ \E j \in 0..MaxErrs, raises \in BOOLEAN :
        /\ func_calls' = func_calls + 1
        /\ error_list' = error_list \o NewErrors(func_calls + 1, j)
        /\ trace' = Append(trace, "invoke")
        /\ IF raises
           THEN /\ ending' = [NoEnding EXCEPT !.kind = "func_raised"]
                /\ last_result' = last_result
                /\ rpc' = "done"
           ELSE /\ ending' = ending
                /\ last_result' = ResultOf(func_calls + 1)
                /\ rpc' = "inspect"
    /\ UNCHANGED <<retry_config, attempt, total_attempts, cleanup_calls, pre_error_list>>
    /\ UNCHANGED <<psshVars, orchVars, cfgVars, libVars>>

\* variant: every attempt counts as failed
Failed_Always(errs) == Len(errs) >= 0

\* len(globals.error_list) > 0
Failed(errs) == Len(errs) > 0

\* if len(globals.error_list) > 0: ... else: return result
inspect ==
    /\ rpc = "inspect"
    /\ trace' = Append(trace, "inspect")
    /\ IF Failed(error_list)
       THEN /\ rpc' = "cleanup"
            /\ ending' = ending
       ELSE /\ rpc' = "done"
            /\ ending' = [NoEnding EXCEPT !.kind = "returned", !.value = last_result]
    /\ UNCHANGED <<error_list, retry_config, attempt, total_attempts, func_calls,
                   cleanup_calls, last_result, pre_error_list>>
    /\ UNCHANGED <<psshVars, orchVars, cfgVars, libVars>>

\* variant: off by one
LastAttempt_OffByOne(att, total) == att >= total

\* the last attempt of the loop
LastAttempt(att, total) == att >= total - 1

\* self._cleanup_after_failure(kwargs, retry_config) has returned: raise on the
\* last attempt or go round the loop (for attempt in range(total_attempts))
cleanup_after_failure ==
    /\ rpc = "cleanup"
    /\ hook.pc = "done"
    /\ cleanup_calls' = cleanup_calls + 1
    /\ trace' = Append(trace, "cleanup")
    /\ IF LastAttempt(attempt, total_attempts)
       THEN /\ rpc' = "done"
            /\ ending' = [NoEnding EXCEPT !.kind = "raised", !.attempts = total_attempts,
                                          !.errors = error_list]
            /\ attempt' = attempt
       ELSE /\ attempt' = attempt + 1
            /\ IF attempt + 1 < total_attempts
               THEN /\ rpc' = "reset"
                    /\ ending' = ending
               ELSE /\ rpc' = "done"
                    /\ ending' = [NoEnding EXCEPT !.kind = "returned_none"]
    /\ UNCHANGED <<error_list, retry_config, total_attempts, func_calls, last_result,
                   pre_error_list>>
    /\ UNCHANGED <<psshVars, orchVars, cfgVars, libVars>>

(***************************************************************************)
(* Orchestrators: data                                                     *)
(***************************************************************************)
\* largest ranks_per_host / no_of_global_ranks given to build_mpi_cmd
MaxRanks == 2

\* largest number of nodes of an orchestrator
MaxOrchHosts == 2

\* container_id = None
NoneId == "None"

\* get_container_name(container_config, image): the configured name, or
\* "<user>_<sanitized image>"; one fixed name per orchestrator
ContainerName == "cvs_container"

\* self.hosts: the keys of node_dict, the head node first
OrchHostLists == {SubSeq(HostNames, 1, n) : n \in 1..MaxOrchHosts}

\* container_config: enabled, launch, image (key absent or set), image_tar
\* (key present or not)
ContainerConfigs == [enabled : BOOLEAN, launch : BOOLEAN, image : {"absent", "set"},
                     image_tar : BOOLEAN]

\* what one host does with one command of a fan-out: it runs it and exits
\* with 0 or with a non-zero code, or the transport fails for that host
ExitOutcomes == {"exit0", "exit1", "ConnectionError"}

\* the commands the orchestrator and the runtime issue
RmCmd == "docker rm -f"
RunCmd == "docker run -d"
ImagesCmd == "docker images"
LoadCmd == "docker load"
PsCmd == "docker ps"
HostfileRmCmd == "rm -f /tmp/mpi_hosts.txt"
HostfileEchoCmd == "echo > /tmp/mpi_hosts.txt"
MpiRunCmd == "mpirun"

\* the commands of the container runtime itself; every other command is a
\* payload, run on the host or, wrapped in "docker exec <name>", in a container
\* the exit statuses a command can produce on a host, given whether the
\* container exists there: "rm -f ... || true" always exits 0; "run" cannot
\* succeed while the name is taken; a payload wrapped in "docker exec" cannot
\* succeed without a container of that name
Allowed(cmd, cname, exists) ==
    IF cmd = RmCmd THEN {"exit0", "ConnectionError"}
    ELSE IF cmd = RunCmd /\ exists THEN {"exit1", "ConnectionError"}
    ELSE IF cmd \notin {RmCmd, RunCmd, ImagesCmd, LoadCmd, PsCmd} /\ cname /= ""
            /\ (cname /= ContainerName \/ ~exists)
         THEN {"exit1", "ConnectionError"}
    ELSE ExitOutcomes

\* the inputs of one fan-out over the reachable hosts of an engine: the
\* per-host outcome, and the failed hosts the connectivity probe finds down
FanInputs(cmd, cname, reach) ==
    {x \in [outcome : [Range(reach) -> ExitOutcomes], down : SUBSET Range(reach)] :
        /\ \A h \in Range(reach) : x.outcome[h] \in Allowed(cmd, cname, cont[h])
        /\ x.down \subseteq {h \in Range(reach) : x.outcome[h] = "ConnectionError"}
        /\ o_stop => x.down = {}}

\* the transport's view of a host outcome: it answered, or the exception
TransportOf(o) == IF o \in {"exit0", "exit1"} THEN "ok" ELSE o

Transport(outcome) == [h \in DOMAIN outcome |-> TransportOf(outcome[h])]

\* stop_on_errors = True: the engine raises the exception of a failed host
Raises(reach, outcome) == o_stop /\ FailedHosts(reach, Transport(outcome)) /= <<>>

\* stop_on_errors = False: failed hosts the probe finds down leave reachable
ReachAfter(reach, outcome, down) ==
    IF Raises(reach, outcome) THEN reach
    ELSE PruneReachable(reach, check_connectivity(FailedHosts(reach, Transport(outcome)), down))

\* detailed=True: the exit_code of a host's entry; -1 for a host that carries
\* an exception or was not contacted
ExitCode(h, reach, outcome) ==
    IF h \in Range(reach)
    THEN IF outcome[h] = "exit0" THEN 0 ELSE IF outcome[h] = "exit1" THEN 1 ELSE 0 - 1
    ELSE 0 - 1

\* all(output['exit_code'] == 0 for output in result.values()); the result
\* has one entry per host of the engine
AllZero(hosts, reach, outcome) == \A h \in Range(hosts) : ExitCode(h, reach, outcome) = 0

\* the containers after a command ran on the hosts that answered with exit 0
ContAfter(cmd, reach, outcome) ==
    [h \in DOMAIN cont |->
        IF h \in Range(reach) /\ outcome[h] = "exit0"
        THEN IF cmd = RmCmd THEN FALSE ELSE IF cmd = RunCmd THEN TRUE ELSE cont[h]
        ELSE cont[h]]

\* the record of one issued command: what, for which container, through
\* which engine, on which hosts
CmdEntry(cmd, cname, engine, reach) ==
    [cmd |-> cmd, name |-> cname, engine |-> engine, on |-> Range(reach)]

\* the hosts that ran the command and exited with 0
ExitedZero(reach, outcome) == {h \in Range(reach) : outcome[h] = "exit0"}

Answered(reach, outcome) == {h \in Range(reach) : outcome[h] /= "ConnectionError"}

NoMpi == [hosts |-> <<>>, ranks_per_host |-> 0, override |-> <<>>, hostfile |-> <<>>,
          file |-> <<>>, args |-> <<>>]

\* the observation of a call, when it starts
OpStart(name) ==
    [name |-> name, ret |-> "none", raised |-> "none", cmds |-> <<>>, answered |-> {},
     started |-> {}, pre_cid |-> container_id, again |-> FALSE, mpi |-> NoMpi,
     hosts |-> <<>>, env_script |-> FALSE, zero |-> {}, omitted |-> FALSE,
     engines |-> <<>>, keys |-> {}]

NoContainerConfig == [enabled |-> FALSE, launch |-> FALSE, image |-> "absent",
                      image_tar |-> FALSE]

\* ContainerOrchestrator.__init__ / BaremetalOrchestrator.__init__
OrchInit ==
    /\ o_type \in {"baremetal", "container"}
    /\ o_hosts \in OrchHostLists
    /\ o_stop \in BOOLEAN
    /\ o_cfg \in ContainerConfigs
    /\ container_id = NoneId
    /\ cont \in [Range(o_hosts) -> BOOLEAN]
    /\ all_reach = o_hosts
    /\ head_reach = <<o_hosts[1]>>
    /\ opc = "idle"
    /\ op = OpStart("none")

\* the orchestrator of a specification that does not exercise it
OrchIdle ==
    /\ o_type = "baremetal"
    /\ o_hosts = <<HostNames[1]>>
    /\ o_stop = FALSE
    /\ o_cfg = NoContainerConfig
    /\ container_id = NoneId
    /\ cont = [h \in {HostNames[1]} |-> FALSE]
    /\ all_reach = o_hosts
    /\ head_reach = o_hosts
    /\ opc = "idle"
    /\ op = OpStart("none")

(***************************************************************************)
(* Orchestrators: operations                                               *)
(***************************************************************************)
\* the observation after one more fan-out
Logged(o, cmd, cname, engine, reach, x) ==
    [o EXCEPT !.cmds = Append(@, CmdEntry(cmd, cname, engine, reach)),
              !.answered = Answered(reach, x.outcome)]

\* one fan-out over self.all
AllFan(cmd, x) ==
    /\ all_reach' = ReachAfter(all_reach, x.outcome, x.down)
    /\ cont' = ContAfter(cmd, all_reach, x.outcome)
    /\ UNCHANGED head_reach

\* a call, or a step of it, that contacts no host
NoFan == UNCHANGED <<cont, all_reach, head_reach>>

Bool(b) == IF b THEN "True" ELSE "False"

orchConst == <<o_type, o_hosts, o_stop, o_cfg>>

\* ContainerOrchestrator.setup_containers, up to the first fan-out
setup_containers ==
    /\ o_type = "container"
    /\ opc = "idle"
    /\ LET o == OpStart("setup_containers") IN
       IF ~o_cfg.enabled
       THEN /\ op' = [o EXCEPT !.ret = "True"]
            /\ UNCHANGED <<container_id, opc>>
       ELSE IF o_cfg.launch
       THEN IF o_cfg.image = "absent"
            THEN /\ op' = [o EXCEPT !.raised = "KeyError"]
                 /\ UNCHANGED <<container_id, opc>>
            ELSE /\ container_id' = ContainerName
                 /\ op' = o
                 /\ opc' = IF o_cfg.image_tar THEN "images" ELSE "rm"
       ELSE IF o_cfg.image /= "set"
            THEN /\ op' = [o EXCEPT !.ret = "False"]
                 /\ UNCHANGED <<container_id, opc>>
            ELSE /\ op' = o
                 /\ opc' = "verify"
                 /\ UNCHANGED container_id
    /\ NoFan
    /\ UNCHANGED orchConst
    /\ UNCHANGED <<psshVars, retryVars, cfgVars, libVars>>

\* DockerRuntime.check_image_exists, called when image_tar is configured
check_image_exists ==
    /\ opc = "images"
    /\ \E x \in FanInputs(ImagesCmd, "", all_reach) :
        LET o == [Logged(op, ImagesCmd, "", "all", all_reach, x) EXCEPT
                    !.zero = ExitedZero(all_reach, x.outcome)]
        IN
        /\ AllFan(ImagesCmd, x)
        /\ IF Raises(all_reach, x.outcome)
           THEN /\ op' = [o EXCEPT !.raised = "ConnectionError"]
                /\ opc' = "idle"
           ELSE /\ op' = o
                /\ opc' = IF AllZero(o_hosts, all_reach, x.outcome) THEN "rm" ELSE "load"
    /\ UNCHANGED <<orchConst, container_id>>
    /\ UNCHANGED <<psshVars, retryVars, cfgVars, libVars>>

\* variant: the load counts as done when some host loaded the tar
LoadSucceeded_Any(hosts, reach, outcome) ==
    \E h \in Range(hosts) : ExitCode(h, reach, outcome) = 0

\* failed_load = [host for host, res in load_result.items()
\*                if res.get('exit_code') != 0] is empty
LoadSucceeded(hosts, reach, outcome) == AllZero(hosts, reach, outcome)

\* DockerRuntime.load_image and the failed_load test of setup_containers
load_image ==
    /\ opc = "load"
    /\ \E x \in FanInputs(LoadCmd, "", all_reach) :
        LET o == [Logged(op, LoadCmd, "", "all", all_reach, x) EXCEPT
                    !.zero = ExitedZero(all_reach, x.outcome)]
        IN
        /\ AllFan(LoadCmd, x)
        /\ IF Raises(all_reach, x.outcome)
           THEN /\ op' = [o EXCEPT !.raised = "ConnectionError"]
                /\ opc' = "idle"
           ELSE IF LoadSucceeded(o_hosts, all_reach, x.outcome)
           THEN /\ op' = o
                /\ opc' = "rm"
           ELSE /\ op' = [o EXCEPT !.ret = "False"]
                /\ opc' = "idle"
    /\ UNCHANGED <<orchConst, container_id>>
    /\ UNCHANGED <<psshVars, retryVars, cfgVars, libVars>>

\* DockerRuntime.setup_containers: remove any existing container of the name
remove_existing ==
    /\ opc = "rm"
    /\ \E x \in FanInputs(RmCmd, ContainerName, all_reach) :
        LET o == Logged(op, RmCmd, ContainerName, "all", all_reach, x) IN
        /\ AllFan(RmCmd, x)
        /\ IF Raises(all_reach, x.outcome)
           THEN /\ op' = [o EXCEPT !.raised = "ConnectionError"]
                /\ opc' = "idle"
           ELSE /\ op' = o
                /\ opc' = "run"
    /\ UNCHANGED <<orchConst, container_id>>
    /\ UNCHANGED <<psshVars, retryVars, cfgVars, libVars>>

\* variant: the start succeeds when some host started the container
StartSucceeded_Any(hosts, reach, outcome) ==
    \E h \in Range(hosts) : ExitCode(h, reach, outcome) = 0

\* success = all(output['exit_code'] == 0 for output in result.values())
StartSucceeded(hosts, reach, outcome) == AllZero(hosts, reach, outcome)

\* DockerRuntime.setup_containers: the detached start on every host
start_containers ==
    /\ opc = "run"
    /\ \E x \in FanInputs(RunCmd, ContainerName, all_reach) :
        LET o == [Logged(op, RunCmd, ContainerName, "all", all_reach, x) EXCEPT
                    !.started = ExitedZero(all_reach, x.outcome)]
        IN
        /\ AllFan(RunCmd, x)
        /\ IF Raises(all_reach, x.outcome)
           THEN /\ op' = [o EXCEPT !.raised = "ConnectionError"]
                /\ opc' = "idle"
           ELSE IF StartSucceeded(o_hosts, all_reach, x.outcome)
           THEN /\ op' = [o EXCEPT !.ret = "True"]
                /\ opc' = "idle"
           ELSE /\ op' = o
                /\ opc' = "undo"
    /\ UNCHANGED <<orchConst, container_id>>
    /\ UNCHANGED <<psshVars, retryVars, cfgVars, libVars>>

\* variant: the removal fails on a host that has no such container
TeardownAllowed_Strict(exists) ==
    IF exists THEN {"exit0", "ConnectionError"} ELSE {"exit1", "ConnectionError"}

\* "sudo docker rm -f {name} 2>/dev/null || true": exit 0 with or without
\* a container of that name
TeardownAllowed(exists) == Allowed(RmCmd, ContainerName, exists)

\* the inputs of the fan-out of DockerRuntime.teardown_containers
TeardownInputs ==
    {x \in FanInputs(ExecCmd, "", all_reach) :
        \A h \in Range(all_reach) : x.outcome[h] \in TeardownAllowed(cont[h])}

\* DockerRuntime.setup_containers: "Clean up partial starts", then False
cleanup_partial_starts ==
    /\ opc = "undo"
    /\ \E x \in TeardownInputs :
        LET o == Logged(op, RmCmd, ContainerName, "all", all_reach, x) IN
        /\ AllFan(RmCmd, x)
        /\ IF Raises(all_reach, x.outcome)
           THEN op' = [o EXCEPT !.raised = "ConnectionError"]
           ELSE op' = [o EXCEPT !.ret = "False"]
        /\ opc' = "idle"
    /\ UNCHANGED <<orchConst, container_id>>
    /\ UNCHANGED <<psshVars, retryVars, cfgVars, libVars>>

\* variant: the check reads detailed entries, so that a container running on
\* every host is verified and container_id is set
verify_containers_running_Detailed ==
    /\ opc = "verify"
    /\ \E x \in FanInputs(PsCmd, ContainerName, all_reach) :
        LET o == Logged(op, PsCmd, ContainerName, "all", all_reach, x) IN
        /\ AllFan(PsCmd, x)
        /\ IF Raises(all_reach, x.outcome)
           THEN /\ op' = [o EXCEPT !.raised = "ConnectionError"]
                /\ UNCHANGED container_id
           ELSE IF AllZero(o_hosts, all_reach, x.outcome) /\ \A h \in Range(o_hosts) : cont[h]
           THEN /\ op' = [o EXCEPT !.ret = "True"]
                /\ container_id' = ContainerName
           ELSE /\ op' = [o EXCEPT !.ret = "False"]
                /\ UNCHANGED container_id
        /\ opc' = "idle"
    /\ UNCHANGED orchConst
    /\ UNCHANGED <<psshVars, retryVars, cfgVars, libVars>>

\* ContainerOrchestrator.verify_containers_running: the check runs through
\* self.all.exec without detailed=True, so each host's entry is a string, and
\* the first output.get('exit_code') raises AttributeError
verify_containers_running ==
    /\ opc = "verify"
    /\ \E x \in FanInputs(PsCmd, ContainerName, all_reach) :
        LET o == Logged(op, PsCmd, ContainerName, "all", all_reach, x) IN
        /\ AllFan(PsCmd, x)
        /\ IF Raises(all_reach, x.outcome)
           THEN op' = [o EXCEPT !.raised = "ConnectionError"]
           ELSE op' = [o EXCEPT !.raised = "AttributeError"]
        /\ opc' = "idle"
    /\ UNCHANGED <<orchConst, container_id>>
    /\ UNCHANGED <<psshVars, retryVars, cfgVars, libVars>>

\* ContainerOrchestrator.teardown_containers
teardown_containers ==
    /\ o_type = "container"
    /\ opc = "idle"
    /\ LET o == OpStart("teardown_containers") IN
       IF ~o_cfg.enabled \/ o_cfg.launch \/ container_id = NoneId
       THEN /\ op' = [o EXCEPT !.ret = "True"]
            /\ NoFan
            /\ UNCHANGED container_id
       ELSE \E x \in TeardownInputs :
            LET o2 == Logged(o, RmCmd, container_id, "all", all_reach, x) IN
            /\ AllFan(RmCmd, x)
            /\ IF Raises(all_reach, x.outcome)
               THEN /\ op' = [o2 EXCEPT !.raised = "ConnectionError"]
                    /\ UNCHANGED container_id
               ELSE /\ op' = [o2 EXCEPT !.ret = Bool(AllZero(o_hosts, all_reach, x.outcome))]
                    /\ container_id' = NoneId
    /\ UNCHANGED <<orchConst, opc>>
    /\ UNCHANGED <<psshVars, retryVars, cfgVars, libVars>>

\* variant: cleanup forgets the containers whatever teardown returned
ClearedByCleanup_Always(cid, success) == NoneId

\* cleanup: "if success: self.container_id = None"
ClearedByCleanup(cid, success) == IF success THEN NoneId ELSE cid

\* ContainerOrchestrator.cleanup(hosts)
cleanup ==
    /\ o_type = "container"
    /\ opc = "idle"
    /\ LET o == OpStart("cleanup") IN
       IF container_id = NoneId
       THEN /\ op' = [o EXCEPT !.ret = "True"]
            /\ NoFan
            /\ UNCHANGED container_id
       ELSE \E x \in TeardownInputs :
            LET o2 == Logged(o, RmCmd, container_id, "all", all_reach, x)
                success == AllZero(o_hosts, all_reach, x.outcome)
            IN
            /\ AllFan(RmCmd, x)
            /\ IF Raises(all_reach, x.outcome)
               THEN /\ op' = [o2 EXCEPT !.raised = "ConnectionError"]
                    /\ UNCHANGED container_id
               ELSE /\ op' = [o2 EXCEPT !.ret = Bool(success)]
                    /\ container_id' = ClearedByCleanup(container_id, success)
    /\ UNCHANGED <<orchConst, opc>>
    /\ UNCHANGED <<psshVars, retryVars, cfgVars, libVars>>

\* the error of exec without containers
NoContainersError == "RuntimeError: No containers running. Call setup_containers() first."

\* variant: exec never refuses
NotLaunched_Never(cid) == FALSE

\* "if not self.container_id"
NotLaunched(cid) == cid = NoneId

\* ContainerOrchestrator.exec(cmd, hosts=None), through DockerRuntime.exec:
\* hosts omitted (None), or a list over the reachable hosts, the empty list
\* included. "if hosts:" sends a non-empty list through all.exec_on_host, one
\* host after the other (an exception of one host leaves the loop), and None
\* and [] alike through all.exec; keys are the hosts of the returned map
container_exec ==
    /\ o_type = "container"
    /\ opc = "idle"
    /\ \E omitted \in BOOLEAN, given \in {SubSeq(all_reach, 1, n) : n \in 0..Len(all_reach)} :
       LET o == [OpStart("exec") EXCEPT !.hosts = given, !.omitted = omitted] IN
       /\ omitted => given = <<>>
       /\ IF NotLaunched(container_id)
          THEN /\ op' = [o EXCEPT !.raised = NoContainersError]
               /\ NoFan
          ELSE IF given = <<>>
          THEN \E x \in FanInputs(ExecCmd, container_id, all_reach) :
               LET o2 == Logged(o, ExecCmd, container_id, "all", all_reach, x) IN
               /\ AllFan(ExecCmd, x)
               /\ IF Raises(all_reach, x.outcome)
                  THEN op' = [o2 EXCEPT !.raised = "ConnectionError"]
                  ELSE op' = [o2 EXCEPT !.ret = "map", !.keys = Range(o_hosts)]
          ELSE \E x \in FanInputs(ExecCmd, container_id, given) :
               LET first == CHOOSE i \in 1..Len(given) :
                                /\ x.outcome[given[i]] = "ConnectionError"
                                /\ \A j \in 1..(i - 1) : x.outcome[given[j]] /= "ConnectionError"
                   contacted == IF Raises(given, x.outcome)
                                THEN SubSeq(given, 1, first) ELSE given
                   o2 == Logged(o, ExecCmd, container_id, "all", contacted, x)
               IN
               /\ all_reach' = IF Raises(given, x.outcome) THEN all_reach
                                ELSE PruneReachable(all_reach,
                                        check_connectivity(
                                            FailedHosts(given, Transport(x.outcome)), x.down))
               /\ UNCHANGED <<cont, head_reach>>
               /\ IF Raises(given, x.outcome)
                  THEN op' = [o2 EXCEPT !.raised = "ConnectionError"]
                  ELSE op' = [o2 EXCEPT !.ret = "map", !.keys = Range(given)]
    /\ UNCHANGED <<orchConst, container_id, opc>>
    /\ UNCHANGED <<psshVars, retryVars, cfgVars, libVars>>

\* ssh_setup_commands, and the check_cmd that follows them
SshdCmds ==
    <<"mkdir -p /root/.ssh",
      "bash -c 'cp -r /host_ssh/* /root/.ssh/'",
      "chown -R root:root /root/.ssh",
      "bash -c 'chmod 700 /root/.ssh && chmod 600 /root/.ssh/*'",
      "mkdir -p /run/sshd",
      "/usr/sbin/sshd -p2224",
      "pgrep -f 'sshd.*2224' > /dev/null 2>&1">>

\* ContainerOrchestrator.setup_sshd, up to its first command
setup_sshd ==
    /\ o_type = "container"
    /\ opc = "idle"
    /\ LET o == OpStart("setup_sshd") IN
       IF NotLaunched(container_id)
       THEN /\ op' = [o EXCEPT !.raised = NoContainersError]
            /\ UNCHANGED opc
       ELSE /\ op' = o
            /\ opc' = "sshd"
    /\ NoFan
    /\ UNCHANGED <<orchConst, container_id>>
    /\ UNCHANGED <<psshVars, retryVars, cfgVars, libVars>>

\* variant: a step counts as done when some host exited 0
SshdStepOk_Any(hosts, reach, outcome) ==
    \E h \in Range(hosts) : ExitCode(h, reach, outcome) = 0

\* "for hostname, output in result.items(): if output['exit_code'] != 0:
\* return False" finds no host
SshdStepOk(hosts, reach, outcome) == AllZero(hosts, reach, outcome)

\* setup_sshd: the next command, through self.exec(cmd, timeout=10,
\* detailed=True), and the test of its result
sshd_step ==
    /\ opc = "sshd"
    /\ LET cmd == SshdCmds[Len(op.cmds) + 1] IN
       \E x \in FanInputs(cmd, container_id, all_reach) :
        LET o == [Logged(op, cmd, container_id, "all", all_reach, x) EXCEPT
                    !.zero = ExitedZero(all_reach, x.outcome)]
        IN
        /\ AllFan(cmd, x)
        /\ IF Raises(all_reach, x.outcome)
           THEN /\ op' = [o EXCEPT !.raised = "ConnectionError"]
                /\ opc' = "idle"
           ELSE IF ~SshdStepOk(o_hosts, all_reach, x.outcome)
           THEN /\ op' = [o EXCEPT !.ret = "False"]
                /\ opc' = "idle"
           ELSE IF Len(o.cmds) = Len(SshdCmds)
           THEN /\ op' = [o EXCEPT !.ret = "True"]
                /\ opc' = "idle"
           ELSE /\ op' = o
                /\ opc' = "sshd"
    /\ UNCHANGED <<orchConst, container_id>>
    /\ UNCHANGED <<psshVars, retryVars, cfgVars, libVars>>

\* one fan-out over self.head
HeadFan(x) ==
    /\ head_reach' = ReachAfter(head_reach, x.outcome, x.down)
    /\ UNCHANGED <<cont, all_reach>>

\* ContainerOrchestrator.exec_on_head(cmd), through DockerRuntime.exec_on_head:
\* "sudo docker exec {container_name} {cmd}" on the head node, whatever
\* container_id is
container_exec_on_head ==
    /\ o_type = "container"
    /\ opc = "idle"
    /\ \E x \in FanInputs(ExecCmd, container_id, head_reach) :
        LET o == Logged(OpStart("exec_on_head"), ExecCmd, container_id, "head", head_reach, x) IN
        /\ HeadFan(x)
        /\ IF Raises(head_reach, x.outcome)
           THEN op' = [o EXCEPT !.raised = "ConnectionError"]
           ELSE op' = [o EXCEPT !.ret = "map"]
    /\ UNCHANGED <<orchConst, container_id, opc>>
    /\ UNCHANGED <<psshVars, retryVars, cfgVars, libVars>>

\* DockerRuntime.teardown_containers(container_name), called on the runtime
docker_teardown_containers ==
    /\ o_type = "container"
    /\ opc = "idle"
    /\ \E name \in {"", ContainerName} :
       LET o == [OpStart("runtime_teardown") EXCEPT
                    !.again = (op.name = "runtime_teardown" /\ op.raised = "none"
                               /\ op.cmds /= <<>>)]
       IN
       IF name = ""
       THEN /\ op' = [o EXCEPT !.ret = "True"]
            /\ NoFan
       ELSE \E x \in TeardownInputs :
            LET o2 == Logged(o, RmCmd, name, "all", all_reach, x) IN
            /\ AllFan(RmCmd, x)
            /\ IF Raises(all_reach, x.outcome)
               THEN op' = [o2 EXCEPT !.raised = "ConnectionError"]
               ELSE op' = [o2 EXCEPT !.ret = Bool(AllZero(o_hosts, all_reach, x.outcome))]
    /\ UNCHANGED <<orchConst, container_id, opc>>
    /\ UNCHANGED <<psshVars, retryVars, cfgVars, libVars>>

(***************************************************************************)
(* BaremetalOrchestrator.build_mpi_cmd                                     *)
(***************************************************************************)
DecimalDigits == <<"0", "1", "2", "3", "4", "5", "6", "7", "8", "9">>

\* str(n) of a non-negative int: its decimal digits
RECURSIVE Str(_)
Str(n) ==
    IF n < 10 THEN <<DecimalDigits[n + 1]>>
    ELSE Str(n \div 10) \o <<DecimalDigits[(n % 10) + 1]>>

\* variant: the hostfile names the first host only
HostfileLines_FirstOnly(mpi_hosts, ranks_per_host) ==
    [i \in 1..(IF mpi_hosts = <<>> THEN 0 ELSE 1) |->
        <<mpi_hosts[i], " slots=">> \o Str(ranks_per_host) \o <<NL>>]

\* host_file_params: one "<host> slots=<ranks_per_host>\n" per host
HostfileLines(mpi_hosts, ranks_per_host) ==
    [i \in 1..Len(mpi_hosts) |-> <<mpi_hosts[i], " slots=">> \o Str(ranks_per_host) \o <<NL>>]

\* variant: an override of 0 counts as no override
GlobalRanks_Falsy(mpi_hosts, ranks_per_host, override) ==
    IF override = <<>> \/ override = <<0>> THEN Len(mpi_hosts) * ranks_per_host
    ELSE override[1]

\* "if no_of_global_ranks is None: no_of_global_ranks = len(mpi_hosts) * ranks_per_host"
GlobalRanks(mpi_hosts, ranks_per_host, override) ==
    IF override = <<>> THEN Len(mpi_hosts) * ranks_per_host ELSE override[1]

\* mpi_runner_args, each argument a sequence of pieces
MpiRunnerArgs(n) ==
    << <<"--np">>, Str(n), <<"--allow-run-as-root">>, <<"--hostfile">>,
       <<"/tmp/mpi_hosts.txt">> >>

\* the backends that define distribute_using_mpi themselves
OverridesMpi(type) == type \in {"baremetal", "container"}

\* self.exec_on_head dispatches on the orchestrator: the container variant
\* wraps the command in "docker exec <container_id>"
HeadWrap == IF o_type = "container" THEN container_id ELSE ""

\* the pieces of a sequence of lines, one after the other
RECURSIVE Flatten(_)
Flatten(lines) ==
    IF lines = <<>> THEN <<>> ELSE Head(lines) \o Flatten(Tail(lines))

\* build_mpi_cmd(rank_cmd, mpi_hosts, ranks_per_host, env_vars,
\* mpi_install_dir, no_of_global_ranks=...), and, for distribute_using_mpi,
\* the launch of the command it returns through exec_on_head
MpiCall(name, launch) ==
    \* mpi_hosts given by the caller; no_of_global_ranks: <<>> for None, <<n>>
    \* for an int
    /\ \E mpi_hosts \in {SubSeq(HostNames, 1, n) : n \in 0..MaxHosts},
          ranks_per_host \in 0..MaxRanks,
          override \in {<<>>} \cup {<<n>> : n \in 0..MaxRanks} :
       \E x1 \in FanInputs(HostfileRmCmd, HeadWrap, head_reach) :
        LET o0 == [OpStart(name) EXCEPT
                     !.again = (op.name /= "none"),
                     !.mpi = [NoMpi EXCEPT !.hosts = mpi_hosts,
                                           !.ranks_per_host = ranks_per_host,
                                           !.override = override,
                                           !.hostfile = HostfileLines(mpi_hosts, ranks_per_host),
                                           !.file = Flatten(HostfileLines(mpi_hosts, ranks_per_host))
                                                   \o <<NL>>]]
            o1 == Logged(o0, HostfileRmCmd, HeadWrap, "head", head_reach, x1)
            reach1 == ReachAfter(head_reach, x1.outcome, x1.down)
        IN
        IF Raises(head_reach, x1.outcome)
        THEN /\ op' = [o1 EXCEPT !.raised = "ConnectionError"]
             /\ head_reach' = head_reach
        ELSE \E x2 \in FanInputs(HostfileEchoCmd, HeadWrap, reach1) :
             LET o2 == Logged(o1, HostfileEchoCmd, HeadWrap, "head", reach1, x2)
                 reach2 == ReachAfter(reach1, x2.outcome, x2.down)
                 o3 == [o2 EXCEPT !.mpi.args = MpiRunnerArgs(
                                     GlobalRanks(mpi_hosts, ranks_per_host, override))]
             IN
             IF Raises(reach1, x2.outcome)
             THEN /\ op' = [o2 EXCEPT !.raised = "ConnectionError"]
                  /\ head_reach' = reach2
             ELSE IF ~launch
             THEN /\ op' = [o3 EXCEPT !.ret = "cmd"]
                  /\ head_reach' = reach2
             ELSE \E x3 \in FanInputs(MpiRunCmd, HeadWrap, reach2) :
                  LET o4 == Logged(o3, MpiRunCmd, HeadWrap, "head", reach2, x3) IN
                  /\ head_reach' = ReachAfter(reach2, x3.outcome, x3.down)
                  /\ IF Raises(reach2, x3.outcome)
                     THEN op' = [o4 EXCEPT !.raised = "ConnectionError"]
                     ELSE op' = [o4 EXCEPT !.ret = "map"]
    /\ UNCHANGED <<orchConst, container_id, cont, all_reach, opc>>
    /\ UNCHANGED <<psshVars, retryVars, cfgVars, libVars>>

\* the calls followed: the first one on an orchestrator, and one more once
\* the head host has been pruned (any other call repeats the first)
MpiCallable ==
    /\ opc = "idle"
    /\ op.name = "none" \/ (head_reach = <<>> /\ ~op.again)

build_mpi_cmd ==
    /\ MpiCallable
    /\ MpiCall("build_mpi_cmd", FALSE)

\* BaremetalOrchestrator.distribute_using_mpi and
\* ContainerOrchestrator.distribute_using_mpi: build_mpi_cmd, then
\* exec_on_head(full_mpi_cmd, timeout=...)
distribute_using_mpi ==
    /\ MpiCallable
    /\ OverridesMpi(o_type)
    /\ MpiCall("distribute_using_mpi", TRUE)

(***************************************************************************)
(* BaremetalOrchestrator.setup_env                                         *)
(***************************************************************************)
EnvCmd == "bash env_script"

\* setup_env(hosts, env_script); ContainerOrchestrator inherits it
setup_env ==
    /\ opc = "idle"
    /\ \E hosts \in {hs \in HostLists : Range(hs) \subseteq Range(o_hosts)},
          env_script \in BOOLEAN :
       LET o == [OpStart("setup_env") EXCEPT !.hosts = hosts, !.env_script = env_script]
           \* self.all when hosts are all the hosts, exec_on_head for the head
           \* node alone, a temporary engine otherwise
           handle == IF Range(hosts) = Range(o_hosts) THEN "all"
                     ELSE IF Len(hosts) = 1 /\ hosts[1] = o_hosts[1] THEN "head"
                     ELSE "temporary"
       IN
       IF ~env_script
       THEN /\ op' = [o EXCEPT !.ret = "True"]
            /\ NoFan
       ELSE IF handle = "all"
       THEN \E x \in FanInputs(EnvCmd, "", all_reach) :
            LET o2 == [Logged(o, EnvCmd, "", "all", all_reach, x) EXCEPT
                          !.zero = ExitedZero(all_reach, x.outcome)] IN
            /\ all_reach' = ReachAfter(all_reach, x.outcome, x.down)
            /\ UNCHANGED <<cont, head_reach>>
            /\ IF Raises(all_reach, x.outcome)
               THEN op' = [o2 EXCEPT !.raised = "ConnectionError"]
               ELSE op' = [o2 EXCEPT !.ret = Bool(AllZero(o_hosts, all_reach, x.outcome))]
       ELSE IF handle = "head"
       \* exec_on_head(cmd, timeout=None) takes no 'detailed' argument
       THEN /\ op' = [o EXCEPT !.raised = "TypeError"]
            /\ NoFan
       ELSE \E x \in FanInputs(EnvCmd, "", hosts) :
            LET o2 == [Logged(o, EnvCmd, "", "temporary", hosts, x) EXCEPT
                          !.zero = ExitedZero(hosts, x.outcome),
                          !.engines = <<hosts>>] IN
            /\ NoFan
            /\ IF Raises(hosts, x.outcome)
               THEN op' = [o2 EXCEPT !.raised = "ConnectionError"]
               ELSE op' = [o2 EXCEPT !.ret = Bool(AllZero(hosts, hosts, x.outcome))]
    /\ UNCHANGED <<orchConst, container_id, opc>>
    /\ UNCHANGED <<psshVars, retryVars, cfgVars, libVars>>

(***************************************************************************)
(* OrchestratorConfig                                                      *)
(***************************************************************************)
RequiredKeys == {"node_dict", "username", "priv_key_file"}

\* a key of a configuration dict: not in the dict, present with the value
\* None (JSON null), or present with a value
ConfigDicts == [RequiredKeys -> {"missing", "None", "set"}]

EmptyDict == [k \in RequiredKeys |-> "missing"]

NoConfigIn == [path |-> "none", has_orchestrator |-> FALSE, cluster |-> EmptyDict,
               testsuite |-> EmptyDict]

NoConfigOut == [raised |-> "none", made |-> FALSE, attrs |-> EmptyDict]

\* no create_orchestrator call yet
NoFactoryIn == [is_config |-> FALSE, orchestrator |-> "", container |-> "missing",
                runtime |-> "missing", stop |-> FALSE]

\* the orchestrator of a specification that builds no configuration
CfgIdle ==
    /\ oc_in = NoConfigIn
    /\ oc_out = NoConfigOut
    /\ fac_in = NoFactoryIn

\* the calls a program can make: OrchestratorConfig(**kwargs), with kwargs
\* in "cluster", or OrchestratorConfig.from_configs(cluster, testsuite)
CfgInit ==
    /\ oc_in \in [path : {"constructor", "from_configs"}, has_orchestrator : BOOLEAN,
                  cluster : ConfigDicts, testsuite : ConfigDicts]
    /\ oc_in.path = "constructor" => oc_in.testsuite = EmptyDict
    /\ oc_out = NoConfigOut
    /\ fac_in = NoFactoryIn

\* OrchestratorConfig.__init__(**kwargs): kwargs['...'] raises KeyError for a
\* key that is not given, and stores any given value, None included
Construct(kwargs, has_orchestrator) ==
    IF ~has_orchestrator \/ \E k \in RequiredKeys : kwargs[k] = "missing"
    THEN [NoConfigOut EXCEPT !.raised = "KeyError"]
    ELSE [NoConfigOut EXCEPT !.made = TRUE, !.attrs = kwargs]

\* merged_config = cluster_config.copy(); merged_config.update(testsuite_config)
Merged(cluster, testsuite) ==
    [k \in RequiredKeys |-> IF testsuite[k] /= "missing" THEN testsuite[k] ELSE cluster[k]]

\* required_config: merged_config.get(key) is None for a missing key
RequiredConfig(merged) ==
    [k \in RequiredKeys |-> IF merged[k] = "missing" THEN "None" ELSE merged[k]]

\* the direct constructor
OrchestratorConfig_init ==
    /\ oc_in.path = "constructor"
    /\ oc_out = NoConfigOut
    /\ oc_out' = Construct(oc_in.cluster, oc_in.has_orchestrator)
    /\ UNCHANGED <<oc_in, fac_in>>
    /\ UNCHANGED <<psshVars, retryVars, orchVars, libVars>>

\* OrchestratorConfig.from_configs: 'orchestrator' defaults to 'baremetal',
\* a required key that is None raises ValueError, then cls(**required_config)
from_configs ==
    /\ oc_in.path = "from_configs"
    /\ oc_out = NoConfigOut
    /\ LET required_config == RequiredConfig(Merged(oc_in.cluster, oc_in.testsuite)) IN
       oc_out' = IF \E k \in RequiredKeys : required_config[k] = "None"
                 THEN [NoConfigOut EXCEPT !.raised = "ValueError"]
                 ELSE Construct(required_config, TRUE)
    /\ UNCHANGED <<oc_in, fac_in>>
    /\ UNCHANGED <<psshVars, retryVars, orchVars, libVars>>

InitRetry ==
    /\ LibIdle
    /\ host_list = <<HostNames[1]>>
    /\ reachable_hosts = host_list
    /\ unreachable_hosts = <<>>
    /\ stop_on_errors = TRUE
    /\ client = host_list
    /\ client_builds = 1
    /\ call = NoCall
    \* empty, or a record left by code that ran before the call
    /\ error_list \in {<<>>, << <<"err", 0, 1>> >>}
    /\ RetryIdle
    /\ OrchIdle
    /\ CfgIdle

NextRetry ==
    \/ wrapper
    \/ run_once
    \/ reset_error_list
    \/ sleep
    \/ invoke
    \/ inspect
    \/ cleanup_after_failure

SpecRetry == InitRetry /\ [][NextRetry]_vars

InitPssh ==
    /\ LibIdle
    /\ PsshInit
    /\ error_list = <<>>
    /\ RetryIdle
    /\ OrchIdle
    /\ CfgIdle

NextPssh ==
    \/ exec
    \/ exec_cmd_list

SpecPssh == InitPssh /\ [][NextPssh]_vars

(***************************************************************************)
(* OrchestratorFactory and construction of the backends                    *)
(***************************************************************************)
\* str.lower() on those values
Lower(s) ==
    CASE s = "BareMetal" -> "baremetal"
      [] s = "CONTAINER" -> "container"
      [] s = "Slurm" -> "slurm"
      [] OTHER -> s

UnsupportedTypeError == "ValueError: Unsupported orchestrator type"

EmptyContainerConfigError ==
    "ValueError: ContainerOrchestrator requires 'container' config in OrchestratorConfig"

\* the arguments a program can give to create_orchestrator: a config object or
\* something else, the value of config.orchestrator, config.get('container', {})
\* (the key missing, an empty dict, or a dict), runtime_config.get('name',
\* 'docker') and stop_on_errors
FactoryInputs ==
    [is_config : BOOLEAN,
     orchestrator : {"baremetal", "BareMetal", "container", "CONTAINER", "slurm",
                     "Slurm"},
     container : {"missing", "empty", "set"},
     runtime : {"missing", "docker", "enroot", "podman"}, stop : BOOLEAN]

\* variant: an unknown type falls back to the baremetal backend
BackendOf_Fallback(t) ==
    IF t = "container" THEN "container" ELSE "baremetal"

\* the if / elif / else chain of create_orchestrator
BackendOf(t) ==
    IF t = "baremetal" THEN "baremetal"
    ELSE IF t = "container" THEN "container"
    ELSE "unsupported"

\* Orchestrator.__init__ and BaremetalOrchestrator.__init__: a new object over
\* some hosts, two engines with every host reachable
NewOrchestrator(type, stop, cfg) ==
    /\ o_type' = type
    /\ o_stop' = stop
    /\ o_cfg' = cfg
    /\ o_hosts' \in OrchHostLists
    /\ cont' \in [Range(o_hosts') -> BOOLEAN]
    /\ all_reach' = o_hosts'
    /\ head_reach' = <<o_hosts'[1]>>
    /\ container_id' = NoneId

\* OrchestratorFactory.create_orchestrator(log, config, stop_on_errors); the
\* model follows one orchestrator, so the calls are those made until one is built
create_orchestrator ==
    /\ opc = "idle"
    /\ o_type = "none"
    /\ \E in \in FactoryInputs :
       LET o == [OpStart("create_orchestrator") EXCEPT !.pre_cid = NoneId]
           t == BackendOf(Lower(in.orchestrator))
           failed(e) == /\ op' = [o EXCEPT !.raised = e]
                        /\ UNCHANGED <<orchConst, container_id>>
                        /\ NoFan
       IN
       /\ fac_in' = in
       /\ IF ~in.is_config THEN failed("TypeError")
          ELSE IF t = "unsupported" THEN failed(UnsupportedTypeError)
          ELSE IF t = "baremetal"
          THEN /\ NewOrchestrator("baremetal", in.stop, NoContainerConfig)
               /\ op' = [o EXCEPT !.ret = "baremetal"]
          ELSE IF in.container /= "set" THEN failed(EmptyContainerConfigError)
          \* RuntimeFactory.create: 'docker' and 'enroot' are the runtimes known
          ELSE IF in.runtime \notin {"missing", "docker", "enroot"}
          THEN failed("ValueError: Unsupported container runtime")
          ELSE /\ \E cfg \in ContainerConfigs : NewOrchestrator("container", in.stop, cfg)
               /\ op' = [o EXCEPT !.ret = "container"]
    /\ UNCHANGED <<opc, oc_in, oc_out>>
    /\ UNCHANGED <<psshVars, retryVars, libVars>>

\* a backend written against the abstract base class (Slurm, K8s, ...): it
\* implements the abstract methods and inherits the rest
Orchestrator_init ==
    /\ opc = "idle"
    /\ o_type = "none"
    /\ \E stop \in BOOLEAN : NewOrchestrator("other", stop, NoContainerConfig)
    /\ op' = [OpStart("Orchestrator") EXCEPT !.pre_cid = NoneId, !.ret = "other"]
    /\ UNCHANGED opc
    /\ UNCHANGED <<psshVars, retryVars, cfgVars, libVars>>

\* Orchestrator.distribute_using_mpi, as inherited
Orchestrator_distribute_using_mpi ==
    /\ opc = "idle"
    /\ o_type /= "none"
    /\ ~OverridesMpi(o_type)
    /\ op' = [OpStart("distribute_using_mpi") EXCEPT !.raised = "NotImplementedError"]
    /\ NoFan
    /\ UNCHANGED <<orchConst, container_id, opc>>
    /\ UNCHANGED <<psshVars, retryVars, cfgVars, libVars>>

(***************************************************************************)
(* Specifications of the orchestrators and of the configuration            *)
(***************************************************************************)
PsshIdle ==
    /\ host_list = <<HostNames[1]>>
    /\ reachable_hosts = host_list
    /\ unreachable_hosts = <<>>
    /\ stop_on_errors = TRUE
    /\ client = host_list
    /\ client_builds = 1
    /\ call = NoCall
    /\ error_list = <<>>

InitOrch ==
    /\ LibIdle
    /\ OrchInit
    /\ o_type = "container"
    /\ CfgIdle
    /\ PsshIdle
    /\ RetryIdle

NextOrch ==
    \/ setup_containers
    \/ check_image_exists
    \/ load_image
    \/ remove_existing
    \/ start_containers
    \/ cleanup_partial_starts
    \/ verify_containers_running
    \/ teardown_containers
    \/ cleanup
    \/ container_exec
    \/ container_exec_on_head
    \/ docker_teardown_containers
    \/ setup_sshd
    \/ sshd_step

SpecOrch == InitOrch /\ [][NextOrch]_vars

\* build_mpi_cmd on a fresh orchestrator of either variant
InitMpi ==
    /\ LibIdle
    /\ OrchInit
    /\ o_cfg = NoContainerConfig
    /\ \A h \in Range(o_hosts) : ~cont[h]
    /\ CfgIdle
    /\ PsshIdle
    /\ RetryIdle

NextMpi ==
    \/ build_mpi_cmd
    \/ distribute_using_mpi

SpecMpi == InitMpi /\ [][NextMpi]_vars

(***************************************************************************)
(* Orchestration Backend: BaremetalOrchestrator.exec and exec_on_head      *)
(***************************************************************************)
\* variant: the pre-built engine is used only for the configured list itself
UsesAll_SameList(hosts) == hosts = o_hosts

\* "if set(hosts) == set(self.hosts)"
UsesAll(hosts) == Range(hosts) = Range(o_hosts)

\* BaremetalOrchestrator.exec(cmd, hosts=None, timeout=None): hosts omitted
\* (None, replaced by self.hosts), or a list over the configured hosts, the
\* empty list included
baremetal_exec ==
    /\ o_type = "baremetal"
    /\ opc = "idle"
    /\ \E omitted \in BOOLEAN,
          given \in {<<>>} \cup {hs \in HostLists : Range(hs) \subseteq Range(o_hosts)} :
       LET hosts == IF omitted THEN o_hosts ELSE given
           o == [OpStart("exec") EXCEPT !.hosts = hosts, !.omitted = omitted]
       IN
       /\ omitted => given = <<>>
       /\ IF UsesAll(hosts)
          THEN \E x \in FanInputs(ExecCmd, "", all_reach) :
               LET o2 == Logged(o, ExecCmd, "", "all", all_reach, x) IN
               /\ all_reach' = ReachAfter(all_reach, x.outcome, x.down)
               /\ UNCHANGED <<cont, head_reach>>
               /\ IF Raises(all_reach, x.outcome)
                  THEN op' = [o2 EXCEPT !.raised = "ConnectionError"]
                  ELSE op' = [o2 EXCEPT !.ret = "map"]
          \* pssh = Pssh(self.log, hosts, ...); pssh.exec(cmd, timeout=timeout)
          ELSE \E x \in FanInputs(ExecCmd, "", hosts) :
               LET o2 == [Logged(o, ExecCmd, "", "temporary", hosts, x) EXCEPT
                             !.engines = <<hosts>>] IN
               /\ NoFan
               /\ IF Raises(hosts, x.outcome)
                  THEN op' = [o2 EXCEPT !.raised = "ConnectionError"]
                  ELSE op' = [o2 EXCEPT !.ret = "map"]
    /\ UNCHANGED <<orchConst, container_id, opc>>
    /\ UNCHANGED <<psshVars, retryVars, cfgVars, libVars>>

\* BaremetalOrchestrator.exec_on_head(cmd, timeout=None)
baremetal_exec_on_head ==
    /\ o_type = "baremetal"
    /\ opc = "idle"
    /\ \E x \in FanInputs(ExecCmd, "", head_reach) :
        LET o == Logged(OpStart("exec_on_head"), ExecCmd, "", "head", head_reach, x) IN
        /\ head_reach' = ReachAfter(head_reach, x.outcome, x.down)
        /\ UNCHANGED <<cont, all_reach>>
        /\ IF Raises(head_reach, x.outcome)
           THEN op' = [o EXCEPT !.raised = "ConnectionError"]
           ELSE op' = [o EXCEPT !.ret = "map"]
    /\ UNCHANGED <<orchConst, container_id, opc>>
    /\ UNCHANGED <<psshVars, retryVars, cfgVars, libVars>>

\* setup_env on an orchestrator of either variant
InitEnv ==
    /\ LibIdle
    /\ OrchInit
    /\ o_cfg = NoContainerConfig
    /\ \A h \in Range(o_hosts) : ~cont[h]
    /\ CfgIdle
    /\ PsshIdle
    /\ RetryIdle

NextEnv ==
    \/ setup_env
    \/ baremetal_exec
    \/ baremetal_exec_on_head

SpecEnv == InitEnv /\ [][NextEnv]_vars

InitCfg ==
    /\ LibIdle
    /\ CfgInit
    /\ OrchIdle
    /\ PsshIdle
    /\ RetryIdle

NextCfg ==
    \/ OrchestratorConfig_init
    \/ from_configs

SpecCfg == InitCfg /\ [][NextCfg]_vars

\* a program that has built no orchestrator yet
InitFactory ==
    /\ LibIdle
    /\ o_type = "none"
    /\ o_hosts = <<HostNames[1]>>
    /\ o_stop = FALSE
    /\ o_cfg = NoContainerConfig
    /\ container_id = NoneId
    /\ cont = [h \in {HostNames[1]} |-> FALSE]
    /\ all_reach = o_hosts
    /\ head_reach = o_hosts
    /\ opc = "idle"
    /\ op = OpStart("none")
    /\ CfgIdle
    /\ PsshIdle
    /\ RetryIdle

NextFactory ==
    \/ create_orchestrator
    \/ Orchestrator_init
    \/ Orchestrator_distribute_using_mpi
    \/ container_exec

SpecFactory == InitFactory /\ [][NextFactory]_vars

\* the calls a program can make and what the hosts can do with them: some
\* hosts, what each did, which of the failed ones the probe confirmed down
InitPresented ==
    /\ \E hosts \in {SubSeq(HostNames, 1, n) : n \in 1..MaxHosts}, detailed \in BOOLEAN :
       \E runs \in [Range(hosts) -> HostRuns] :
       \E pruned \in SUBSET {h \in Range(hosts) : runs[h].exception /= "none"} :
           presented = [NoPresented EXCEPT !.hosts = hosts, !.runs = runs,
                                           !.pruned = pruned, !.detailed = detailed]
    /\ cmd_list = <<>>
    /\ si = NoStream
    /\ hook = NoHook
    /\ calls = <<>>
    /\ PsshIdle
    /\ RetryIdle
    /\ OrchIdle
    /\ CfgIdle

NextPresented == exec_presented

SpecPresented == InitPresented /\ [][NextPresented]_vars

\* _safe_iterator(iterator) is entered with nothing read yet; the stream is
\* some lines, numbered in the order the host printed them, each of which
\* either decodes as text or does not
InitSafeIterator ==
    /\ \E n \in 0..MaxLines : \E b \in [1..n -> BOOLEAN] :
          si = [NoStream EXCEPT !.stream = [i \in 1..n |-> [no |-> i, ok |-> b[i]]],
                                !.done = FALSE]
    /\ presented = NoPresented
    /\ cmd_list = <<>>
    /\ hook = NoHook
    /\ calls = <<>>
    /\ PsshIdle
    /\ RetryIdle
    /\ OrchIdle
    /\ CfgIdle

NextSafeIterator == safe_iterator

SpecSafeIterator == InitSafeIterator /\ [][NextSafeIterator]_vars

\* the first attempt of a wrapped call with retry enabled has failed and the
\* hook is about to be called. The call passed each of phdl, rccl_tests_dir
\* and user_name as a keyword argument, as a keyword argument with an empty
\* value, positionally, or not at all; kwargs holds the keyword arguments
\* only, and kwargs.get gives None, which is falsy, for the others
InitCleanup ==
    /\ calls = <<>>
    /\ \E passed \in [{"phdl", "rccl_tests_dir", "user_name"} ->
                          {"keyword", "empty", "positional", "missing"}],
          n \in 1..MaxHosts :
          hook = [NoHook EXCEPT
                    !.passed = passed,
                    !.kwargs = [phdl |-> passed.phdl = "keyword",
                                rccl_tests_dir |-> IF passed.rccl_tests_dir = "keyword"
                                                   THEN "/opt/rccl-tests" ELSE "",
                                user_name |-> IF passed.user_name = "keyword"
                                              THEN "cvs" ELSE ""],
                    !.hosts = SubSeq(HostNames, 1, n),
                    !.pc = "called"]
    /\ presented = NoPresented
    /\ cmd_list = <<>>
    /\ si = NoStream
    /\ host_list = <<HostNames[1]>>
    /\ reachable_hosts = host_list
    /\ unreachable_hosts = <<>>
    /\ stop_on_errors = TRUE
    /\ client = host_list
    /\ client_builds = 1
    /\ call = NoCall
    /\ OrchIdle
    /\ CfgIdle
    /\ retry_config \in {c \in RetryConfigs : /\ RetryEnabled(c)
                                              /\ c.has_max /\ c.max_retries >= 0
                                              /\ ~c.has_delay}
    /\ total_attempts = GetMaxRetries(retry_config) + 1
    /\ attempt = 0
    /\ rpc = "cleanup"
    /\ func_calls = 1
    /\ cleanup_calls = 0
    /\ error_list = NewErrors(1, 1)
    /\ pre_error_list = <<>>
    /\ last_result = ResultOf(1)
    /\ ending = NoEnding
    /\ trace = <<"reset", "invoke", "inspect">>

NextCleanup ==
    \/ rccl_cleanup_after_failure
    \/ check_processes
    \/ kill_processes
    \/ cleanup_files
    \/ cleanup_after_failure

SpecCleanup == InitCleanup /\ [][NextCleanup]_vars

(***************************************************************************)
(* Retry-with-Cleanup: two wrapped calls that overlap in time              *)
(***************************************************************************)
\* the variables of the single wrapped call, which the overlapping calls
\* leave alone
wrapperVars == <<retry_config, rpc, attempt, total_attempts, func_calls,
                 cleanup_calls, last_result, ending, pre_error_list, trace>>

\* variant: the reset removes the records of the resetting call only
ResetBy_OwnRecords(p, errs) == Filter(errs, {r \in Range(errs) : r[2] /= p})

\* globals.error_list = []: the one list of the process is replaced
ResetBy(p, errs) == <<>>

\* call p, line 74: the reset at the start of an attempt; a call whose
\* operation has recorded a failure and which has not yet looked at the signal
\* loses the record
race_reset(p) ==
    /\ calls[p].pc = "reset"
    /\ error_list' = ResetBy(p, error_list)
    /\ calls' = [q \in DOMAIN calls |->
                    IF q = p THEN [calls[p] EXCEPT !.pc = "invoke", !.recorded = 0,
                                                   !.erased = FALSE]
                    ELSE IF calls[q].pc = "inspect" /\ calls[q].recorded > 0
                    THEN [calls[q] EXCEPT !.erased = TRUE]
                    ELSE calls[q]]
    /\ UNCHANGED wrapperVars
    /\ UNCHANGED <<psshVars, orchVars, cfgVars, presented, cmd_list, si, hook>>

\* call p, line 83: the operation runs, records j failures in the signal and
\* returns
race_invoke(p) ==
    /\ calls[p].pc = "invoke"
    /\ \E j \in 0..1 :
        /\ error_list' = error_list \o [i \in 1..j |-> <<"err", p, calls[p].attempt + 1>>]
        /\ calls' = [calls EXCEPT ![p] = [calls[p] EXCEPT !.pc = "inspect", !.recorded = j]]
    /\ UNCHANGED wrapperVars
    /\ UNCHANGED <<psshVars, orchVars, cfgVars, presented, cmd_list, si, hook>>

\* call p, lines 86-100: the signal is read; a failed attempt runs the hook
\* and raises on the last attempt or goes round the loop
race_inspect(p) ==
    /\ calls[p].pc = "inspect"
    /\ IF ~Failed(error_list)
       THEN calls' = [calls EXCEPT ![p] = [calls[p] EXCEPT !.pc = "done", !.ending = "returned"]]
       ELSE IF LastAttempt(calls[p].attempt, calls[p].total)
       THEN calls' = [calls EXCEPT ![p] = [calls[p] EXCEPT !.pc = "done", !.ending = "raised",
                                                   !.cleanups = @ + 1]]
       ELSE calls' = [calls EXCEPT ![p] = [calls[p] EXCEPT !.pc = "reset", !.attempt = @ + 1,
                                                   !.cleanups = @ + 1]]
    /\ UNCHANGED error_list
    /\ UNCHANGED wrapperVars
    /\ UNCHANGED <<psshVars, orchVars, cfgVars, presented, cmd_list, si, hook>>

\* two wrapped calls with retry enabled and no delay have been entered, each
\* with one or two attempts; the signal is empty or holds a record of before
InitRace ==
    /\ calls \in [1..2 -> [pc : {"reset"}, attempt : {0}, total : 1..2,
                           recorded : {0}, erased : {FALSE}, cleanups : {0},
                           ending : {"none"}]]
    /\ error_list \in {<<>>, << <<"err", 0, 1>> >>}
    /\ presented = NoPresented
    /\ cmd_list = <<>>
    /\ si = NoStream
    /\ hook = NoHook
    /\ PsshIdle
    /\ RetryIdle
    /\ OrchIdle
    /\ CfgIdle

NextRace ==
    \E p \in 1..2 :
        \/ race_reset(p)
        \/ race_invoke(p)
        \/ race_inspect(p)

SpecRace == InitRace /\ [][NextRace]_vars

(***************************************************************************)
(* Properties of the Parallel Execution Engine (under SpecPssh)            *)
(***************************************************************************)
CallMade == call.kind /= "none"

FailedInCall == {h \in DOMAIN call.outcome : call.outcome[h] /= "ok"}

\* hosts pruned by the last call
PrunedInCall == call.probe_down

\* C1: after every call the reachable and unreachable lists are
\* duplicate-free, disjoint, and together hold exactly the hosts of H.
C1_Partition ==
    /\ NoDup(reachable_hosts)
    /\ NoDup(unreachable_hosts)
    /\ Range(reachable_hosts) \cap Range(unreachable_hosts) = {}
    /\ Range(reachable_hosts) \cup Range(unreachable_hosts) = Range(host_list)
    /\ Len(reachable_hosts) + Len(unreachable_hosts) = Len(host_list)

C1_Witness ==
    /\ CallMade
    /\ Len(host_list) = 3
    /\ Len(unreachable_hosts) = 2
    /\ Len(reachable_hosts) = 1
    /\ call.pre_unreachable /= <<>>

\* C2: a host in the unreachable list stays there, never returns to the
\* reachable list, and the next call sends it neither a command nor a probe;
\* the transport is always built over the reachable list, and a call that is
\* not refused sends its command to exactly the hosts of the transport.
C2_NeverContactedAgain ==
    [][/\ \A h \in Range(unreachable_hosts) :
            /\ h \in Range(unreachable_hosts')
            /\ h \notin Range(reachable_hosts')
            /\ h \notin DOMAIN call'.issued
            /\ h \notin call'.probed
       /\ client' = reachable_hosts'
       /\ call'.rejected \/ DOMAIN call'.issued = Range(client)]_vars

C2_Witness ==
    /\ CallMade
    /\ call.pre_unreachable /= <<>>
    /\ DOMAIN call.issued /= {}
    /\ call.probed /= {}

\* C3: with stop_on_errors = true a call in which some host fails raises that
\* host's exception, yields no result map, runs neither probe nor pruning,
\* and leaves reachable, unreachable and the transport as they were.
C3_StrictRaises ==
    (CallMade /\ stop_on_errors /\ FailedInCall /= {}) =>
        /\ call.raised.class \in ExcClasses
        /\ call.raised.host \in FailedInCall
        /\ call.raised.class = call.outcome[call.raised.host]
        /\ call.raised.text = ExcText(call.raised.class)
        /\ ~call.returned
        /\ DOMAIN call.result = {}
        /\ ~call.probe_ran
        /\ ~call.prune_ran
        /\ call.probed = {}
        /\ reachable_hosts = call.pre_reachable
        /\ unreachable_hosts = call.pre_unreachable
        /\ client = call.pre_client
        /\ client_builds = call.pre_builds

C3_Witness ==
    /\ CallMade
    /\ stop_on_errors
    /\ Cardinality(FailedInCall) = 1
    /\ Len(host_list) = 2
    /\ call.raised.class = "ConnectionError"

\* C4: with stop_on_errors = false every call (given a well-formed cmd_list)
\* returns, raises nothing, and its result map has exactly one entry per host
\* of H.
C4_OneEntryPerHost ==
    (CallMade /\ ~stop_on_errors /\ ~call.rejected) =>
        /\ call.returned
        /\ call.raised = NoExc
        /\ DOMAIN call.result = Range(host_list)
        /\ Cardinality(DOMAIN call.result) = Len(host_list)

C4_Witness ==
    /\ CallMade
    /\ ~stop_on_errors
    /\ call.pre_unreachable /= <<>>
    /\ PrunedInCall /= {}
    /\ Len(reachable_hosts) >= 1

\* C5: with stop_on_errors = false, a call in which connection-class hosts
\* are reported unreachable removes exactly the reported hosts from reachable,
\* appends them to unreachable, rebuilds the transport exactly once over the
\* shrunken list, gives each pruned connection-class host exactly
\* "<text>\n\nABORT: Host Unreachable Error", and gives the other hosts their
\* own output (their stdout, or their raw exception text).
C5_ConnectionPrune ==
    (CallMade /\ ~stop_on_errors
        /\ \E h \in PrunedInCall : call.outcome[h] = "ConnectionError") =>
        /\ reachable_hosts = Filter(call.pre_reachable, Range(call.pre_reachable) \ PrunedInCall)
        /\ Range(unreachable_hosts) = Range(call.pre_unreachable) \cup PrunedInCall
        /\ client_builds = call.pre_builds + 1
        /\ client = reachable_hosts
        /\ \A h \in DOMAIN call.outcome :
            /\ (h \in PrunedInCall /\ call.outcome[h] = "ConnectionError") =>
                  call.result[h] = <<"Connection failed", NL, NL, HostUnreachableLine>>
            /\ call.outcome[h] = "ok" => call.result[h] = StdoutOf(h, call.issued[h])
            /\ (h \notin PrunedInCall /\ call.outcome[h] /= "ok") =>
                  call.result[h] = <<ExcText(call.outcome[h])>>

C5_Witness ==
    /\ CallMade
    /\ ~stop_on_errors
    /\ Cardinality({h \in PrunedInCall : call.outcome[h] = "ConnectionError"}) = 2
    /\ \E h \in DOMAIN call.outcome : call.outcome[h] = "ok"
    /\ client_builds = 2

\* C6: with stop_on_errors = false, a host that fails (connection or timeout
\* class) and is reported reachable stays in reachable, its result holds the
\* raw exception text and no ABORT line; when no host of the call is reported
\* unreachable the lists are unchanged and the transport is not rebuilt.
C6_FalseAlarm ==
    (CallMade /\ ~stop_on_errors) =>
        /\ \A h \in FailedInCall \ PrunedInCall :
            /\ h \in Range(reachable_hosts)
            /\ h \notin Range(unreachable_hosts)
            /\ Contains(call.result[h], ExcText(call.outcome[h]))
            /\ ~Contains(call.result[h], HostUnreachableLine)
            /\ ~Contains(call.result[h], TimeoutLine(h)[1])
        /\ (FailedInCall /= {} /\ PrunedInCall = {}) =>
            /\ reachable_hosts = call.pre_reachable
            /\ unreachable_hosts = call.pre_unreachable
            /\ client = call.pre_client
            /\ client_builds = call.pre_builds

C6_Witness ==
    /\ CallMade
    /\ ~stop_on_errors
    /\ PrunedInCall = {}
    /\ \E h \in FailedInCall : call.outcome[h] = "Timeout"
    /\ \E h \in FailedInCall : call.outcome[h] = "ConnectionError"

\* C7: with stop_on_errors = false, a timeout-class host reported unreachable
\* is pruned like a connection-class one, and its result is exactly
\* "<text>\nABORT: Timeout Error in Host: <host>\n\nABORT: Host Unreachable Error",
\* which is not the connection-failure form; the same for exec and
\* exec_cmd_list.
C7_TimeoutPrune ==
    (CallMade /\ ~stop_on_errors) =>
        \A h \in PrunedInCall :
            call.outcome[h] = "Timeout" =>
                /\ h \in Range(unreachable_hosts)
                /\ h \notin Range(reachable_hosts)
                /\ h \notin Range(client)
                /\ client_builds = call.pre_builds + 1
                /\ call.result[h] =
                     <<"Command timed out", NL, "ABORT: Timeout Error in Host: ", h,
                       NL, NL, HostUnreachableLine>>
                /\ call.result[h] /= <<"Command timed out", NL, NL, HostUnreachableLine>>

C7_Witness ==
    /\ CallMade
    /\ call.kind = "exec_cmd_list"
    /\ ~stop_on_errors
    /\ \E h \in PrunedInCall : call.outcome[h] = "Timeout"
    /\ \E h \in DOMAIN call.outcome : call.outcome[h] = "ok"

(***************************************************************************)
(* Properties of Retry-with-Cleanup (under SpecRetry)                      *)
(***************************************************************************)
\* C8: with retry enabled and max_retries = N >= 0, an invocation in which no
\* attempt left the failure signal empty (and the operation never raised)
\* ends by raising the aggregate failure, after exactly N+1 invocations of
\* the operation and N+1 runs of the cleanup hook, naming N+1 attempts; until
\* then nothing is raised.
C8_Exhaustion ==
    (RetryEnabled(retry_config) /\ GetMaxRetries(retry_config) >= 0) =>
        /\ (rpc = "done" /\ ending.kind \notin {"returned", "func_raised"}) =>
              ending.kind = "raised"
        /\ ending.kind = "raised" =>
              /\ func_calls = GetMaxRetries(retry_config) + 1
              /\ cleanup_calls = GetMaxRetries(retry_config) + 1
              /\ ending.attempts = GetMaxRetries(retry_config) + 1
              /\ trace[Len(trace)] = "cleanup"
        /\ func_calls <= GetMaxRetries(retry_config) + 1
        /\ cleanup_calls <= func_calls

C8_Witness ==
    /\ RetryEnabled(retry_config)
    /\ retry_config.has_max
    /\ retry_config.max_retries = 2
    /\ ending.kind = "raised"
    /\ func_calls = 3
    /\ cleanup_calls = 3
    /\ ending.attempts = 3

\* C9: with retry disabled (no config, or the flag false or missing) the
\* operation is invoked exactly once, the cleanup hook never, whatever the
\* failure signal holds before or after; the value returned is the
\* operation's result.
C9_DisabledOnce ==
    (rpc /= "idle" /\ (~retry_config.present \/ retry_config.enabled /= "true")) =>
        /\ cleanup_calls = 0
        /\ func_calls <= 1
        /\ rpc = "done" =>
            /\ func_calls = 1
            /\ ending.kind \in {"returned", "func_raised"}
            /\ ending.kind = "returned" => ending.value = ResultOf(1)

C9_Witness ==
    /\ rpc = "done"
    /\ retry_config.present
    /\ retry_config.enabled = "false"
    /\ pre_error_list /= <<>>
    /\ Len(error_list) > Len(pre_error_list)
    /\ ending.kind = "returned"

\* C10: with retry enabled, when the failure signal is empty after attempt k
\* the wrapper ends there: it returns the result of attempt k, runs neither
\* the cleanup hook nor another attempt, raises nothing, and the operation
\* has been invoked k times and the cleanup hook k-1 times.
C10_FirstSuccessEnds ==
    [][/\ (rpc = "inspect" /\ error_list = <<>>) =>
            /\ rpc' = "done"
            /\ ending'.kind = "returned"
            /\ ending'.value = ResultOf(attempt + 1)
            /\ func_calls' = attempt + 1
            /\ cleanup_calls' = attempt
            /\ func_calls' = func_calls
            /\ cleanup_calls' = cleanup_calls
       /\ rpc /= "done"]_vars

C10_Witness ==
    /\ RetryEnabled(retry_config)
    /\ rpc = "done"
    /\ ending.kind = "returned"
    /\ func_calls = 3
    /\ cleanup_calls = 2
    /\ ending.value = ResultOf(3)

(***************************************************************************)
(* Properties of the container orchestrator (under SpecOrch)               *)
(***************************************************************************)
\* a step that is a whole call of the operation n
CallStep(n) == opc = "idle" /\ opc' = "idle" /\ op'.name = n

\* C11: exec() called while container_id is None raises the "No containers
\* running. Call setup_containers() first." error, issues no command on any
\* host and changes nothing.
C11_ExecNotLaunchedRaises ==
    [][(CallStep("exec") /\ container_id = NoneId) =>
          /\ op'.raised = NoContainersError
          /\ op'.ret = "none"
          /\ op'.cmds = <<>>
          /\ cont' = cont
          /\ all_reach' = all_reach
          /\ head_reach' = head_reach
          /\ container_id' = NoneId]_vars

C11_Witness ==
    /\ op.name = "exec"
    /\ op.pre_cid = NoneId
    /\ op.raised = NoContainersError
    /\ op.cmds = <<>>
    /\ \E h \in Range(o_hosts) : cont[h]

\* C12: exec_on_head() called while container_id is None raises the error
\* saying setup_containers() must run first and issues no command on the
\* head host.
C12_ExecOnHeadNotLaunchedRaises ==
    [][(CallStep("exec_on_head") /\ container_id = NoneId) =>
          /\ op'.raised = NoContainersError
          /\ op'.cmds = <<>>]_vars

\* C13: with enabled and launch both true, a teardown_containers() that
\* follows a setup_containers() that returned true force-removes the
\* container on every host and sets container_id to None (so that a
\* following exec() raises).
C13_LaunchLifecycle ==
    [][(/\ CallStep("teardown_containers")
        /\ o_cfg.enabled
        /\ o_cfg.launch
        /\ op.name = "setup_containers"
        /\ op.ret = "True"
        /\ op'.raised = "none") =>
          /\ op'.cmds = <<CmdEntry(RmCmd, ContainerName, "all", all_reach)>>
          /\ \A h \in op'.answered : ~cont'[h]
          /\ container_id' = NoneId]_vars

\* C14: with launch false, setup_containers() issues only the
\* running-container check, and when every host answers it returns true iff
\* the container runs on every host; teardown_containers() issues no command,
\* returns true and leaves the containers as they are.
C14_ExternallyManaged ==
    [][/\ (opc = "verify" /\ opc' = "idle" /\ op'.answered = Range(o_hosts)) =>
            /\ op'.raised = "none"
            /\ op'.ret = Bool(\A h \in Range(o_hosts) : cont[h])
            /\ \A i \in 1..Len(op'.cmds) : op'.cmds[i].cmd = PsCmd
            /\ cont' = cont
       /\ (CallStep("teardown_containers") /\ o_cfg.enabled /\ ~o_cfg.launch) =>
            /\ op'.cmds = <<>>
            /\ op'.ret = "True"
            /\ cont' = cont]_vars

\* C15: after a setup_containers() call that started with container_id None
\* and returned false, container_id is still None.
C15_NoneUntilSetupSucceeds ==
    (opc = "idle" /\ op.name = "setup_containers" /\ op.ret = "False"
        /\ op.pre_cid = NoneId) => container_id = NoneId

\* C16 as stated: after cleanup(hosts) returns, container_id is None,
\* whatever the runtime's teardown reported.
C16_CleanupAlwaysClears ==
    (opc = "idle" /\ op.name = "cleanup" /\ op.raised = "none") => container_id = NoneId

\* C16 as amended: after cleanup(hosts) returns true, container_id is None;
\* when the runtime's teardown reports a failure for some host, cleanup
\* returns false and container_id keeps its value.
C16_CleanupClearsOnSuccess ==
    (opc = "idle" /\ op.name = "cleanup" /\ op.raised = "none") =>
        /\ op.ret \in {"True", "False"}
        /\ op.ret = "True" => container_id = NoneId
        /\ op.ret = "False" =>
            /\ container_id = op.pre_cid
            /\ container_id /= NoneId
            /\ op.answered /= Range(o_hosts)

C16_Witness ==
    /\ op.name = "cleanup"
    /\ op.ret = "False"
    /\ op.cmds /= <<>>
    /\ container_id = ContainerName

C18_TeardownIdempotent ==
    [][(CallStep("runtime_teardown") /\ op'.cmds /= <<>> /\ op'.raised = "none") =>
          /\ op'.cmds = <<CmdEntry(RmCmd, ContainerName, "all", all_reach)>>
          /\ \A h \in op'.answered : ~cont'[h]
          /\ \A h \in Range(o_hosts) \ op'.answered : cont'[h] = cont[h]
          /\ op'.ret = Bool(op'.answered = Range(o_hosts))
          /\ (/\ op.name = "runtime_teardown"
              /\ op.raised = "none"
              /\ op.cmds /= <<>>
              /\ op'.answered = op.answered) =>
                /\ op'.ret = op.ret
                /\ cont' = cont]_vars

C18_Witness ==
    /\ op.name = "runtime_teardown"
    /\ op.again
    /\ op.cmds /= <<>>
    /\ op.ret = "True"
    /\ \A h \in Range(o_hosts) : ~cont[h]

(***************************************************************************)
(* Properties of build_mpi_cmd (under SpecMpi)                             *)
(***************************************************************************)
DigitValue(d) == CHOOSE v \in 0..9 : DecimalDigits[v + 1] = d

\* the number a decimal string denotes
RECURSIVE ParseInt(_)
ParseInt(s) ==
    IF Len(s) = 1 THEN DigitValue(s[1])
    ELSE 10 * ParseInt(SubSeq(s, 1, Len(s) - 1)) + DigitValue(s[Len(s)])

\* C19: without a global-rank override build_mpi_cmd passes --np equal to
\* len(mpi_hosts) * ranks_per_host, for every host list and every
\* ranks_per_host; with an override it passes exactly the override.
C19_GlobalRanks ==
    (op.name = "build_mpi_cmd" /\ op.ret = "cmd") =>
        /\ op.mpi.args[1] = <<"--np">>
        /\ op.mpi.override = <<>> =>
              ParseInt(op.mpi.args[2]) = Len(op.mpi.hosts) * op.mpi.ranks_per_host
        /\ op.mpi.override /= <<>> => ParseInt(op.mpi.args[2]) = op.mpi.override[1]

C19_Witness ==
    /\ op.name = "build_mpi_cmd"
    /\ op.ret = "cmd"
    /\ op.mpi.override = <<>>
    /\ Len(op.mpi.hosts) = 3
    /\ op.mpi.ranks_per_host = 2
    /\ op.mpi.args[2] = <<"6">>

(***************************************************************************)
(* Properties of OrchestratorConfig (under SpecCfg)                        *)
(***************************************************************************)
\* the keys the construction is given, on either path
GivenTo(in) ==
    IF in.path = "constructor" THEN in.cluster ELSE Merged(in.cluster, in.testsuite)

\* C20: on both construction paths, the construction raises whenever
\* node_dict, username or priv_key_file is absent, and no configuration
\* object is made that lacks a value for one of the three.
C20_RequiredOrFails ==
    oc_out /= NoConfigOut =>
        /\ (\E k \in RequiredKeys : GivenTo(oc_in)[k] \in {"missing", "None"}) =>
              (oc_out.raised /= "none" /\ ~oc_out.made)
        /\ oc_out.made => \A k \in RequiredKeys : oc_out.attrs[k] = "set"

(***************************************************************************)
(* Properties of the error taxonomy (under SpecFactory)                    *)
(***************************************************************************)
\* C21: whatever stop_on_errors is, an unsupported orchestrator type, a
\* container orchestrator with an empty container sub-config, exec before the
\* containers run, and distribute_using_mpi on a backend that inherits it each
\* end in their exception: nothing is returned and no command is issued.
C21_AlwaysRaised ==
    /\ op.name = "create_orchestrator" /\ fac_in.is_config
       /\ Lower(fac_in.orchestrator) \notin {"baremetal", "container"}
       => op.raised = UnsupportedTypeError /\ op.ret = "none" /\ op.cmds = <<>>
    /\ op.name = "create_orchestrator" /\ fac_in.is_config
       /\ Lower(fac_in.orchestrator) = "container" /\ fac_in.container /= "set"
       => op.raised = EmptyContainerConfigError /\ op.ret = "none" /\ op.cmds = <<>>
    /\ op.name = "exec" /\ o_type = "container" /\ op.pre_cid = NoneId
       => op.raised = NoContainersError /\ op.ret = "none" /\ op.cmds = <<>>
    /\ op.name = "distribute_using_mpi" /\ o_type = "other"
       => op.raised = "NotImplementedError" /\ op.ret = "none" /\ op.cmds = <<>>

\* an unsupported type given with stop_on_errors = False, refused
C21_Witness ==
    /\ op.name = "create_orchestrator"
    /\ fac_in.is_config
    /\ ~fac_in.stop
    /\ fac_in.orchestrator = "Slurm"
    /\ op.raised = UnsupportedTypeError

DecodableIn(stream, n, ok) ==
    SelectSeq(SubSeq(stream, 1, n), LAMBDA l : l.ok = ok)

\* C24: at every point of the read the lines delivered are exactly the
\* decodable lines read so far, in their order, with one warning per
\* undecodable line; the read ends only at the end of the stream, so that in
\* the end exactly the decodable lines are delivered (none of an empty stream).
C24_SkipsUndecodable ==
    LET good == DecodableIn(si.stream, si.pos, TRUE)
        bad  == DecodableIn(si.stream, si.pos, FALSE)
    IN  /\ si.delivered = [i \in 1..Len(good) |-> good[i].no]
        /\ si.warnings = Len(bad)
        /\ si.done => si.pos = Len(si.stream)

\* a finished read of a stream with two undecodable lines, one of them first,
\* and decodable lines after each
C24_Witness ==
    /\ si.done
    /\ Len(si.stream) >= 4
    /\ ~si.stream[1].ok
    /\ si.warnings = 2
    /\ Len(si.delivered) >= 2
    /\ si.stream[Len(si.stream)].ok

(***************************************************************************)
(* Properties of setup_env (under SpecEnv)                                 *)
(***************************************************************************)
\* C25: setup_env without an env_script returns True and issues no command;
\* with one, for every hosts argument, a call that no transport exception
\* aborts issues the script once, on hosts of the argument only, and returns
\* True exactly if every host of the argument ran it and exited 0.
C25_SetupEnv ==
    op.name = "setup_env" =>
        /\ ~op.env_script => op.ret = "True" /\ op.cmds = <<>> /\ op.raised = "none"
        /\ op.env_script =>
              \/ op.raised = "ConnectionError"
              \/ /\ op.raised = "none"
                 /\ Len(op.cmds) = 1
                 /\ op.cmds[1].cmd = EnvCmd
                 /\ op.cmds[1].on \subseteq Range(op.hosts)
                 /\ op.ret = Bool(Range(op.hosts) \subseteq op.zero)

(***************************************************************************)
(* Properties of the order of events in the retry loop (under SpecRetry)   *)
(***************************************************************************)
\* the events that may follow one another directly
FollowedBy ==
    {<<"reset", "sleep">>, <<"reset", "invoke">>, <<"sleep", "invoke">>,
     <<"invoke", "inspect">>, <<"inspect", "cleanup">>, <<"cleanup", "reset">>}

\* the number of the attempt the i-th event belongs to
AttemptOf(i) == Cardinality({j \in 1..i : trace[j] = "reset"})

SetupOrders ==
    {<<ImagesCmd, LoadCmd, RmCmd, RunCmd, RmCmd>>, <<ImagesCmd, RmCmd, RunCmd, RmCmd>>,
     <<RmCmd, RunCmd, RmCmd>>}

\* C27: a launching setup_containers issues its commands in the order load
\* (only with an image tar configured and the image not found on every host),
\* remove, start, each through the engine over all hosts, and on every host
\* when the setup succeeds; if the load does not exit 0 on every host the setup
\* returns False and issues neither remove nor start.
C27_SetupOrder ==
    (op.name = "setup_containers" /\ o_cfg.enabled /\ o_cfg.launch) =>
        LET n == Len(op.cmds)
            names == [i \in 1..n |-> op.cmds[i].cmd]
            last == IF n = 0 THEN "" ELSE names[n]
        IN
        /\ \E order \in SetupOrders : n <= Len(order) /\ names = SubSeq(order, 1, n)
        /\ \A i \in 1..n : op.cmds[i].engine = "all"
        /\ op.ret = "True" => \A i \in 1..n : op.cmds[i].on = Range(o_hosts)
        /\ Contains(names, ImagesCmd) <=> (o_cfg.image_tar /\ n > 0)
        /\ (n >= 2 /\ names[1] = ImagesCmd /\ names[2] = RmCmd) => op.cmds[2].on = Range(o_hosts)
        /\ (last = ImagesCmd /\ op.raised = "none") =>
              IF op.zero = Range(o_hosts) THEN opc = "rm" ELSE opc = "load"
        /\ (last = LoadCmd /\ op.raised = "none") =>
              IF op.zero = Range(o_hosts)
              THEN opc = "rm"
              ELSE opc = "idle" /\ op.ret = "False"

\* a setup that has ended after a load that failed on one host of two and
\* succeeded on the other
C27_Witness ==
    /\ op.name = "setup_containers"
    /\ opc = "idle"
    /\ Len(o_hosts) = 2
    /\ Len(op.cmds) = 2
    /\ op.cmds[2].cmd = LoadCmd
    /\ Cardinality(op.zero) = 1
    /\ op.ret = "False"

(***************************************************************************)
(* Properties of distribute_using_mpi (under SpecMpi)                      *)
(***************************************************************************)
\* the lines of a text, without their newlines
RECURSIVE SplitLines(_, _)
SplitLines(text, line) ==
    IF text = <<>> THEN (IF line = <<>> THEN <<>> ELSE <<line>>)
    ELSE IF Head(text) = NL THEN <<line>> \o SplitLines(Tail(text), <<>>)
    ELSE SplitLines(Tail(text), Append(line, Head(text)))

\* C28: distribute_using_mpi issues its commands through the head engine only,
\* in the order: removal of the old hostfile, writing of the hostfile, one MPI
\* launch; a call no transport exception aborts issues all three, once each,
\* and returns the result of the launch; the hostfile holds one line
\* "<host> slots=<ranks_per_host>" per entry of mpi_hosts, in list order.
C28_DistributeOrder ==
    op.name = "distribute_using_mpi" =>
        LET n == Len(op.cmds)
            names == [i \in 1..n |-> op.cmds[i].cmd]
            lines == SelectSeq(SplitLines(op.mpi.file, <<>>), LAMBDA l : l /= <<>>)
        IN
        /\ n <= 3
        /\ names = SubSeq(<<HostfileRmCmd, HostfileEchoCmd, MpiRunCmd>>, 1, n)
        /\ \A i \in 1..n :
              op.cmds[i].engine = "head" /\ op.cmds[i].on \subseteq {o_hosts[1]}
        /\ op.raised = "none" => n = 3 /\ op.ret = "map"
        /\ op.raised /= "none" => op.raised = "ConnectionError" /\ op.ret = "none"
        /\ lines = [i \in 1..Len(op.mpi.hosts) |->
                       <<op.mpi.hosts[i], " slots=">> \o Str(op.mpi.ranks_per_host)]

\* a launch over three hosts, two ranks each, on a cluster of two hosts, that
\* returned
C28_Witness ==
    /\ op.name = "distribute_using_mpi"
    /\ ~o_stop
    /\ op.ret = "map"
    /\ Len(op.mpi.hosts) = 3
    /\ op.mpi.ranks_per_host = 2
    /\ Len(o_hosts) = 2
    /\ Len(op.cmds) = 3
    /\ op.cmds[3].on = {o_hosts[1]}

(***************************************************************************)
(* Properties of setup_sshd (under SpecOrch)                               *)
(***************************************************************************)
\* C29: setup_sshd called with container_id None raises the "no containers
\* running" error and issues nothing; otherwise it issues its steps in order
\* (copy the keys, fix ownership and permissions, start sshd on port 2224,
\* confirm the process) in the containers through the engine over all hosts,
\* goes on only after a step that exited 0 on every host, returns False at the
\* first step that did not, and returns True exactly after the last step
\* exited 0 on every host.
C29_SshdSteps ==
    op.name = "setup_sshd" =>
        LET n == Len(op.cmds)
            names == [i \in 1..n |-> op.cmds[i].cmd]
            allZero == op.zero = Range(o_hosts)
        IN
        /\ op.pre_cid = NoneId =>
              op.raised = NoContainersError /\ n = 0 /\ op.ret = "none" /\ opc = "idle"
        /\ op.pre_cid /= NoneId =>
              /\ n <= Len(SshdCmds)
              /\ names = SubSeq(SshdCmds, 1, n)
              /\ \A i \in 1..n :
                    op.cmds[i].engine = "all" /\ op.cmds[i].name = op.pre_cid
              /\ op.raised \in {"none", "ConnectionError"}
              /\ opc = "sshd" => n < Len(SshdCmds) /\ (n > 0 => allZero)
              /\ (n > 0 /\ ~allZero /\ op.raised = "none") =>
                    opc = "idle" /\ op.ret = "False"
              /\ op.ret = "True" <=>
                    (opc = "idle" /\ op.raised = "none" /\ n = Len(SshdCmds) /\ allZero)
              /\ op.ret = "True" => \A i \in 1..n : op.cmds[i].on = Range(o_hosts)

\* a bootstrap on two hosts that stopped at the daemon start, which failed on
\* one of them
C29_Witness ==
    /\ op.name = "setup_sshd"
    /\ opc = "idle"
    /\ Len(o_hosts) = 2
    /\ Len(op.cmds) = 6
    /\ Cardinality(op.zero) = 1
    /\ op.ret = "False"

(***************************************************************************)
(* Properties of the cleanup hook (under SpecCleanup)                      *)
(***************************************************************************)
HookActed == HookActs(hook.kwargs) /\ hook.pc /= "called"

\* the place of a command in the order census, kill, file deletion
PhaseOf(cmd) ==
    CASE cmd.op = "ps aux | wc -l" -> 1
      [] cmd.op = "pkill -9" -> 2
      [] cmd.op = "rm -f" -> 3

IssuedOf(phase) ==
    {hook.issued[i].cmd : i \in {j \in 1..Len(hook.issued) :
                                    PhaseOf(hook.issued[j].cmd) = phase}}

\* C30: when the hook acts it issues the census commands, then one force-kill
\* per benchmark binary (11) and per MPI pattern (2), then the temp-file
\* deletions, in that order, each on every host; an exception of any single
\* command, census included, does not stop the later commands from being
\* issued, and no exception leaves the hook
C30_CleanupOrder ==
    /\ ~hook.raised
    /\ \A i, j \in 1..Len(hook.issued) :
          /\ hook.issued[i].hosts = hook.hosts
          /\ i < j => /\ PhaseOf(hook.issued[i].cmd) <= PhaseOf(hook.issued[j].cmd)
                      /\ hook.issued[i].cmd /= hook.issued[j].cmd
    /\ (HookActed /\ hook.pc /= "done") => ENABLED NextCleanup
    /\ (HookActed /\ hook.pc = "done") =>
          /\ {c.target : c \in IssuedOf(1)} = {"rccl", "mpi"}
          /\ {c \in IssuedOf(2) : c.dir = hook.kwargs.rccl_tests_dir}
                = {KillBinaryCmd(b, hook.kwargs.rccl_tests_dir,
                                 hook.kwargs.user_name) :
                       b \in Range(rccl_test_binaries)}
          /\ Cardinality({c \in IssuedOf(2) : c.dir = hook.kwargs.rccl_tests_dir})
                = 11
          /\ {c.target : c \in {d \in IssuedOf(2) : d.dir = ""}}
                = Range(MpiPatterns)
          /\ Cardinality({c \in IssuedOf(2) : c.dir = ""}) = 2
          /\ {c.target : c \in IssuedOf(3)} = Range(TempFiles)
          /\ Len(hook.issued) = 2 + 11 + 2 + Cardinality(Range(TempFiles))

\* the hook acted, an exception was swallowed in the census, in the kill loop
\* and in the file cleanup, and the hook still reached its end
C30_Witness ==
    /\ HookActed
    /\ hook.pc = "done"
    /\ hook.warnings.check > 0
    /\ hook.warnings.kill > 0
    /\ hook.warnings.file > 0
    /\ Len(hook.hosts) > 1

(***************************************************************************)
(* Properties of BaremetalOrchestrator.exec (under SpecEnv)                *)
(***************************************************************************)
\* C31: BaremetalOrchestrator.exec with hosts omitted or set-equal to the
\* configured hosts runs on the pre-built all-hosts engine and builds no
\* engine; with any other hosts it builds one engine over exactly these hosts,
\* runs on it, and leaves the reachable hosts of the all-hosts and head engines
\* as they were; exec_on_head runs on the pre-built head engine.
C31_EngineChoice ==
    [][/\ (CallStep("exec") /\ o_type = "baremetal") =>
             IF op'.omitted \/ Range(op'.hosts) = Range(o_hosts)
             THEN /\ op'.engines = <<>>
                  /\ Len(op'.cmds) = 1
                  /\ op'.cmds[1].engine = "all"
                  /\ op'.cmds[1].on = Range(all_reach)
                  /\ head_reach' = head_reach
             ELSE /\ op'.engines = <<op'.hosts>>
                  /\ Len(op'.cmds) = 1
                  /\ op'.cmds[1].engine = "temporary"
                  /\ op'.cmds[1].on = Range(op'.hosts)
                  /\ all_reach' = all_reach
                  /\ head_reach' = head_reach
       /\ (CallStep("exec_on_head") /\ o_type = "baremetal") =>
             /\ op'.engines = <<>>
             /\ Len(op'.cmds) = 1
             /\ op'.cmds[1].engine = "head"
             /\ op'.cmds[1].on = Range(head_reach)
             /\ all_reach' = all_reach]_vars

\* exec was given the configured hosts in another order, after a host had
\* left the all-hosts engine
C31_Witness ==
    /\ o_type = "baremetal"
    /\ op.name = "exec"
    /\ ~op.omitted
    /\ op.hosts /= o_hosts
    /\ Range(op.hosts) = Range(o_hosts)
    /\ op.cmds[1].on /= Range(o_hosts)
    /\ op.ret = "map"

(***************************************************************************)
(* Further properties of Retry-with-Cleanup (under SpecRetry)              *)
(***************************************************************************)
\* C33: with retry enabled, an exception raised by the wrapped operation
\* leaves the wrapper at once: the invocation is the last event, the cleanup
\* hook has run for the earlier attempts only, and no further attempt follows.
C33_ExceptionPropagates ==
    (RetryEnabled(retry_config) /\ ending.kind = "func_raised") =>
        /\ rpc = "done"
        /\ trace[Len(trace)] = "invoke"
        /\ func_calls = attempt + 1
        /\ cleanup_calls = attempt

\* the operation raised in the second attempt of three, after recording a
\* failure
C33_Witness ==
    /\ RetryEnabled(retry_config)
    /\ ending.kind = "func_raised"
    /\ total_attempts = 3
    /\ func_calls = 2
    /\ cleanup_calls = 1
    /\ error_list /= <<>>

\* C34: with retry enabled, for every integer max_retries, a wrapper that ends
\* without the operation having raised has invoked the operation at least
\* once, and ends by returning the result of an attempt that left the failure
\* signal empty or by raising the aggregate failure.
C34_AlwaysInvoked ==
    (RetryEnabled(retry_config) /\ rpc = "done" /\ ending.kind /= "func_raised") =>
        /\ func_calls >= 1
        /\ \/ /\ ending.kind = "returned"
              /\ ending.value = ResultOf(func_calls)
              /\ error_list = <<>>
           \/ ending.kind = "raised"

\* C35: the aggregate failure raised on exhaustion carries exactly the records
\* the last invocation of the operation appended, in their order, and nothing
\* of an earlier attempt or of before the call.
C35_LastAttemptOnly ==
    ending.kind = "raised" =>
        /\ ending.errors /= <<>>
        /\ ending.errors = NewErrors(func_calls, Len(ending.errors))
        /\ ending.errors = error_list

\* exhaustion after three attempts, each of which recorded a failure, with a
\* record in the signal before the call
C35_Witness ==
    /\ ending.kind = "raised"
    /\ func_calls = 3
    /\ pre_error_list /= <<>>
    /\ Len(ending.errors) = 1

\* C36: with retry disabled the failure signal after the call is what it was
\* before the call followed by what the operation appended; the wrapper
\* neither raises on a non-empty signal nor runs the cleanup hook.
C36_DisabledLeavesSignal ==
    (rpc = "done" /\ (~retry_config.present \/ retry_config.enabled /= "true")) =>
        /\ Len(error_list) >= Len(pre_error_list)
        /\ SubSeq(error_list, 1, Len(pre_error_list)) = pre_error_list
        /\ SubSeq(error_list, Len(pre_error_list) + 1, Len(error_list))
              = NewErrors(1, Len(error_list) - Len(pre_error_list))
        /\ cleanup_calls = 0
        /\ trace = <<"invoke">>
        /\ ending.kind \in {"returned", "func_raised"}

\* no retry_config at all, a record in the signal before the call, and the
\* operation appended another and returned
C36_Witness ==
    /\ rpc = "done"
    /\ ~retry_config.present
    /\ pre_error_list /= <<>>
    /\ Len(error_list) = Len(pre_error_list) + 2
    /\ ending.kind = "returned"

(***************************************************************************)
(* Properties of overlapping wrapped calls (under SpecRace)                *)
(***************************************************************************)
\* C32: two overlapping retry-wrapped calls share the one failure signal: the
\* reset of either call empties it, records of the other call included, and a
\* call whose operation recorded a failure returns as successful, without
\* cleanup or retry of that attempt, exactly in the runs where the other call
\* reset the signal between the operation and the inspection.
C32_SharedSignalRace ==
    [][\A p \in 1..2 :
          /\ (calls[p].pc = "reset" /\ calls'[p].pc = "invoke") => error_list' = <<>>
          /\ (calls'[p].ending = "returned" /\ calls'[p].recorded > 0) =>
                calls'[p].erased
          /\ (calls[p].pc = "inspect" /\ calls[p].erased /\ calls'[p].pc /= "inspect"
              /\ error_list = <<>>) =>
                /\ calls'[p].ending = "returned"
                /\ calls'[p].cleanups = calls[p].cleanups
                /\ calls'[p].attempt = calls[p].attempt]_vars

\* the interleaving: call 1 recorded a failure in its first attempt of two,
\* call 2 reset the signal, and call 1 returned as successful with no cleanup
C32_Witness ==
    /\ calls /= <<>>
    /\ calls[1].ending = "returned"
    /\ calls[1].recorded > 0
    /\ calls[1].erased
    /\ calls[1].total = 2
    /\ calls[1].attempt = 0
    /\ calls[1].cleanups = 0

(***************************************************************************)
(* Further properties of the cleanup hook (under SpecCleanup)              *)
(***************************************************************************)
\* C37: the hook issues commands only when phdl, rccl_tests_dir and user_name
\* were all passed as keyword arguments with non-empty values, and then it
\* does; when one of them is missing, empty or positional no command is
\* issued, the hook returns, and the retry loop counts the attempt and goes
\* on: to the next attempt, or, on the last one, to the aggregate failure.
C37_HookNeedsKeywords ==
    LET allKeywords == \A k \in DOMAIN hook.passed : hook.passed[k] = "keyword" IN
    /\ ~allKeywords => hook.issued = <<>> /\ ~hook.raised
    /\ (allKeywords /\ hook.pc \notin {"called", "check_rccl"}) => hook.issued /= <<>>
    /\ (~allKeywords /\ hook.pc = "called") => ENABLED rccl_cleanup_after_failure
    /\ (~allKeywords /\ hook.pc = "done") =>
          IF rpc = "cleanup"
          THEN cleanup_calls = 0 /\ ENABLED cleanup_after_failure
          ELSE /\ cleanup_calls = 1
               /\ IF total_attempts = 1
                  THEN rpc = "done" /\ ending.kind = "raised"
                  ELSE rpc = "reset" /\ attempt = 1 /\ ending.kind = "none"

\* phdl was passed positionally, the other two as keywords: nothing was
\* issued and the loop is at the start of the second attempt
C37_Witness ==
    /\ hook.passed.phdl = "positional"
    /\ hook.passed.rccl_tests_dir = "keyword"
    /\ hook.passed.user_name = "keyword"
    /\ hook.pc = "done"
    /\ hook.issued = <<>>
    /\ rpc = "reset"
    /\ attempt = 1
    /\ cleanup_calls = 1

(***************************************************************************)
(* distribute_using_mpi without containers (under SpecMpi)                 *)
(***************************************************************************)
\* C38: ContainerOrchestrator.distribute_using_mpi called while container_id
\* is None raises before issuing any command: neither the hostfile removal,
\* the hostfile write nor the MPI launch is executed on the head host.
C38_MpiNotLaunchedRaises ==
    [][(/\ CallStep("distribute_using_mpi")
        /\ o_type = "container"
        /\ container_id = NoneId) =>
          /\ op'.raised /= "none"
          /\ op'.cmds = <<>>]_vars

C40_ExecOnlyOnGivenHosts ==
    [][(/\ CallStep("exec")
        /\ o_type = "container"
        /\ ~op'.omitted
        /\ op'.raised /= NoContainersError) =>
          /\ \A i \in 1..Len(op'.cmds) : op'.cmds[i].on \subseteq Range(op'.hosts)
          /\ op'.raised = "none" => op'.keys = Range(op'.hosts)]_vars

====
